---- MODULE Spec2Model ----
(***************************************************************************)
(* Luminous Neural: the generic persistence and relationship layer.        *)
(*                                                                         *)
(* Entity stores (one table per model class), association stores (one      *)
(* table per relationship), BaseRepository, ManyToManyRepository and the   *)
(* per-kind services that sit on top of them.  One action is one service   *)
(* call, executed in a request-scoped session and committed before it      *)
(* returns.                                                                *)
(***************************************************************************)
EXTENDS Integers, Sequences, FiniteSets, Bags, TLC

(***************************************************************************)
(* Bounds of the model.                                                    *)
(***************************************************************************)
MaxId == 2
MaxRows == 3
MaxCrudRows == 2
MaxClock == 1
MaxLinks == 2
MaxRaceLinks == 1

Ids == 1..MaxId

(***************************************************************************)
(* Schema: model classes, columns, association tables.                     *)
(***************************************************************************)
Kinds == {"Enterprise", "Agent", "IAGroup", "Tool", "User"}

\* Python None in a nullable column.
None == <<>>

Some(v) == <<v>>

\* Kind-specific scalar columns of each model class.
DomainAttrs(k) ==
    CASE k = "Enterprise" -> {"name", "description", "ia_model"}
      [] k = "Agent"      -> {"name", "description", "system_message"}
      [] k = "IAGroup"    -> {"name", "description"}
      [] k = "Tool"       -> {"name", "description", "path"}
      [] k = "User"       -> {"name", "email", "password", "is_admin"}

AuditColumns == {"created_by", "updated_by"}

TimestampColumns == {"created_at", "updated_at"}

Columns(k) == {"id", "status"} \cup DomainAttrs(k) \cup AuditColumns \cup TimestampColumns

Tables == {"agent_tool", "enterprise_agent", "enterprise_ia_group",
           "enterprise_user", "ia_group_agent", "user_enterprise"}

TableColumns(t) ==
    CASE t = "agent_tool"          -> {"agent_id", "tool_id"}
      [] t = "enterprise_agent"    -> {"enterprise_id", "agent_id"}
      [] t = "enterprise_ia_group" -> {"enterprise_id", "ia_group_id"}
      [] t = "enterprise_user"     -> {"enterprise_id", "user_id"}
      [] t = "ia_group_agent"      -> {"ia_group_id", "agent_id"}
      [] t = "user_enterprise"     -> {"enterprise_id", "user_id"}

\* The columns declared with primary_key=True on the Column.  In agent_tool
\* the flag of agent_id is an argument of ForeignKey, not of Column, so
\* agent_id is no part of the key.
PrimaryKey(t) ==
    CASE t = "agent_tool"          -> {"tool_id"}
      [] t = "enterprise_agent"    -> {"enterprise_id", "agent_id"}
      [] t = "enterprise_ia_group" -> {"enterprise_id", "ia_group_id"}
      [] t = "enterprise_user"     -> {"enterprise_id", "user_id"}
      [] t = "ia_group_agent"      -> {"ia_group_id", "agent_id"}
      [] t = "user_enterprise"     -> {"enterprise_id", "user_id"}

\* ForeignKey('<table>.id') of an association column.
ForeignKeyKind(c) ==
    CASE c = "enterprise_id" -> "Enterprise"
      [] c = "agent_id"      -> "Agent"
      [] c = "ia_group_id"   -> "IAGroup"
      [] c = "tool_id"       -> "Tool"
      [] c = "user_id"       -> "User"

\* The engine is SQLite opened without PRAGMA foreign_keys=ON: foreign keys
\* (and their ON DELETE CASCADE) are declared but not enforced by the store.
ForeignKeysEnforced == FALSE

\* relationship(..., secondary=t) declared on each model class.
Secondaries(k) ==
    CASE k = "Enterprise" -> {"enterprise_agent", "enterprise_ia_group", "enterprise_user"}
      [] k = "IAGroup"    -> {"enterprise_ia_group", "ia_group_agent"}
      [] k = "Agent"      -> {"agent_tool", "enterprise_agent", "ia_group_agent"}
      [] k = "Tool"       -> {"agent_tool"}
      [] k = "User"       -> {}

(***************************************************************************)
(* State.                                                                  *)
(***************************************************************************)
VARIABLES
    rows,    \* rows[k]: the entity store of kind k, a function id -> row
    assoc,   \* assoc[t]: the association store t, a bag of rows
    now,     \* the store's clock (func.now())
    result,  \* what the last service call returned or raised
    created, \* created[k]: by id, the entities create returned that no update,
             \* logical_delete or delete has been applied to since
    assigned, \* assigned[k]: the ids the creates of kind k have assigned, as
              \* recorded by Assigns
    pending,  \* the link request in flight: how far it got, and its arguments
    sessions  \* sessions[s]: the request worker s is serving in its session,
              \* how far it got, and the identity map of the session

vars == <<rows, assoc, now, result, created, assigned, pending, sessions>>

ExistingIds(k) == DOMAIN rows[k]

TotalRows == Cardinality({p \in Kinds \X Ids : p[2] \in ExistingIds(p[1])})

\* The number of distinct rows held by the association stores in all.
LinksIn(allAssoc) ==
    Cardinality(UNION {{<<t, r>> : r \in DOMAIN allAssoc[t]} : t \in Tables})

TotalLinks == LinksIn(assoc)

(***************************************************************************)
(* Small helpers.                                                          *)
(***************************************************************************)
MaxOf(S) == CHOOSE m \in S : \A x \in S : x <= m

MinOf(S) == CHOOSE m \in S : \A x \in S : m <= x

RECURSIVE SortedSeq(_)
SortedSeq(S) == IF S = {} THEN <<>> ELSE <<MinOf(S)>> \o SortedSeq(S \ {MinOf(S)})

RECURSIVE Repeat(_, _)
Repeat(x, n) == IF n = 0 THEN <<>> ELSE <<x>> \o Repeat(x, n - 1)

RECURSIVE Flatten(_)
Flatten(ss) == IF ss = <<>> THEN <<>> ELSE Head(ss) \o Flatten(Tail(ss))

SeqToSet(s) == {s[i] : i \in DOMAIN s}

\* Function f without the argument x.
Without(f, x) == [y \in DOMAIN f \ {x} |-> f[y]]

\* A keyword-argument mapping: field name -> value.
NoKwargs == [c \in {} |-> None]

(***************************************************************************)
(* BaseRepository (app/repositories/base.py) over the entity store.        *)
(***************************************************************************)
\* The integer primary key the store assigns to an INSERT: SQLite's rowid
\* rule for INTEGER PRIMARY KEY without AUTOINCREMENT, largest id plus one.
NextId(store) == IF DOMAIN store = {} THEN 1 ELSE MaxOf(DOMAIN store) + 1

\* Columns that accept NULL; their values are stored as None or Some(v).
NullableColumns == {"updated_at", "updated_by"}

\* Column defaults applied by the INSERT when the constructor got no value.
ColumnDefaults == [status |-> TRUE, is_admin |-> FALSE,
                   updated_at |-> None, updated_by |-> None]

\* NOT NULL columns an INSERT must get a value for: no default covers them.
MissingColumns(k, kwargs) ==
    (Columns(k) \ {"id", "created_at"}) \ (DOMAIN kwargs \cup DOMAIN ColumnDefaults)

\* A constructor that stamps updated_at at creation.
NewRow_stamped(k, kwargs, id, t) ==
    [c \in Columns(k) |->
        CASE c = "id"              -> id
          [] c = "created_at"      -> t
          [] c = "updated_at"      -> Some(t)
          [] c \in DOMAIN kwargs   -> IF c \in NullableColumns THEN Some(kwargs[c]) ELSE kwargs[c]
          [] OTHER                 -> ColumnDefaults[c]]

\* obj = self.model(**kwargs); add; commit; refresh: the row as stored.
NewRow(k, kwargs, id, t) ==
    [c \in Columns(k) |->
        CASE c = "id"              -> id
          [] c = "created_at"      -> t
          [] c = "updated_at"      -> None
          [] c \in DOMAIN kwargs   -> IF c \in NullableColumns THEN Some(kwargs[c])
                                                              ELSE kwargs[c]
          [] OTHER                 -> ColumnDefaults[c]]

\* BaseRepository.create: the store after the commit.
BaseRepository_create(store, k, kwargs, t) ==
    LET id == NextId(store)
    IN  [i \in DOMAIN store \cup {id} |->
            IF i = id THEN NewRow(k, kwargs, id, t) ELSE store[i]]

\* A faulty lookup that falls back to the first row when the id has no row.
BaseRepository_get_by_id_first(store, id) ==
    IF id \in DOMAIN store THEN <<store[id]>>
    ELSE IF DOMAIN store = {} THEN <<>>
    ELSE <<store[MinOf(DOMAIN store)]>>

\* BaseRepository.get_by_id: <<row>> when found, <<>> (None) otherwise.
BaseRepository_get_by_id(store, id) ==
    IF id \in DOMAIN store THEN <<store[id]>> ELSE <<>>

\* A faulty get_all that filters on status: active rows only.
BaseRepository_get_all_active(store) ==
    LET ids == SortedSeq({i \in DOMAIN store : store[i].status})
    IN  [i \in DOMAIN ids |-> store[ids[i]]]

\* BaseRepository.get_all: every row, in primary-key order.
BaseRepository_get_all(store) ==
    LET ids == SortedSeq(DOMAIN store)
    IN  [i \in DOMAIN ids |-> store[ids[i]]]

\* A faulty setattr loop that also writes the schema default of updated_by
\* when the payload leaves it out.
SetAttrs_defaults(obj, kwargs) ==
    [c \in DOMAIN obj |->
        IF c \in DOMAIN kwargs
        THEN IF c \in NullableColumns THEN Some(kwargs[c]) ELSE kwargs[c]
        ELSE IF c = "updated_by" THEN Some("system") ELSE obj[c]]

\* for key, value in kwargs.items(): setattr(obj, key, value)
SetAttrs(obj, kwargs) ==
    [c \in DOMAIN obj |->
        IF c \in DOMAIN kwargs
        THEN IF c \in NullableColumns THEN Some(kwargs[c]) ELSE kwargs[c]
        ELSE obj[c]]

\* A faulty flush that emits an UPDATE, and so stamps updated_at, at every
\* commit.
EmitsUpdate_always(loaded, obj) == TRUE

\* The flush of session.commit() emits an UPDATE for a loaded object only
\* when some attribute has a net change against its loaded value.
EmitsUpdate(loaded, obj) == loaded # obj

\* A flush that never applies onupdate: updated_at only changes when set.
Flush_plain(loaded, obj, t) == obj

\* session.commit() then refresh: the row as stored.  An emitted UPDATE also
\* carries updated_at = func.now() (onupdate of TimestampMixin.updated_at).
Flush(loaded, obj, t) ==
    IF EmitsUpdate(loaded, obj)
    THEN IF loaded.updated_at # obj.updated_at THEN obj
         ELSE [obj EXCEPT !.updated_at = Some(t)]
    ELSE loaded

\* BaseRepository.update: the row as stored and returned after the commit.
BaseRepository_update(obj, kwargs, t) == Flush(obj, SetAttrs(obj, kwargs), t)

\* BaseRepository.logical_delete: status = False, commit.
BaseRepository_logical_delete(obj, t) ==
    Flush(obj, [obj EXCEPT !.status = FALSE], t)

\* A faulty delete that removes the row of the largest id instead.
BaseRepository_delete_last(store, id) ==
    [i \in DOMAIN store \ {MaxOf(DOMAIN store)} |-> store[i]]

\* BaseRepository.delete: the entity store after session.delete + commit.
BaseRepository_delete(store, id) == [i \in DOMAIN store \ {id} |-> store[i]]

\* The unit of work of session.delete(obj) also deletes, from every table
\* that is the secondary of a relationship of obj's class, the rows of the
\* loaded collection: those that reference obj and a partner row that exists.
OrmSecondaryDeletes(k, id, t, tbl, allRows) ==
    IF t \notin Secondaries(k) THEN {}
    ELSE {r \in DOMAIN tbl :
            \E c \in TableColumns(t) :
                /\ ForeignKeyKind(c) = k
                /\ r[c] = id
                /\ \A d \in TableColumns(t) \ {c} :
                       r[d] \in DOMAIN allRows[ForeignKeyKind(d)]}

\* ON DELETE CASCADE of the foreign keys, when the store enforces them.
StoreCascadeDeletes(k, id, t, tbl) ==
    IF ~ForeignKeysEnforced THEN {}
    ELSE {r \in DOMAIN tbl :
            \E c \in TableColumns(t) : ForeignKeyKind(c) = k /\ r[c] = id}

\* The association stores after BaseRepository.delete of row id of kind k.
AssocAfterDelete(k, id, allAssoc, allRows) ==
    [t \in Tables |->
        LET gone == OrmSecondaryDeletes(k, id, t, allAssoc[t], allRows)
                    \cup StoreCascadeDeletes(k, id, t, allAssoc[t])
        IN  [r \in DOMAIN allAssoc[t] \ gone |-> allAssoc[t][r]]]

(***************************************************************************)
(* ManyToManyRepository (app/repositories/many_to_many.py).                *)
(***************************************************************************)
\* .values({left_key: left_id, right_key: right_id})
LinkRow(left_id, right_id, left_key, right_key) ==
    (left_key :> left_id) @@ (right_key :> right_id)

\* A table without a primary key: no INSERT is ever rejected as a duplicate.
PrimaryKeyConflict_none(t, tbl, row) == FALSE

\* The primary-key constraint of table t rejects the INSERT of row.
PrimaryKeyConflict(t, tbl, row) ==
    \E r \in DOMAIN tbl : \A c \in PrimaryKey(t) : r[c] = row[c]

\* The foreign-key constraints of table t reject the INSERT of row.
ForeignKeyConflict(t, row, allRows) ==
    /\ ForeignKeysEnforced
    /\ \E c \in TableColumns(t) : row[c] \notin DOMAIN allRows[ForeignKeyKind(c)]

\* An association table declared without a primary key: only its foreign
\* keys can reject an INSERT.
LinkRaises_foreign(t, tbl, row, allRows) == ForeignKeyConflict(t, row, allRows)

\* Does insert(...).values(...) raise sqlalchemy.exc.IntegrityError?
LinkRaises(t, tbl, row, allRows) ==
    PrimaryKeyConflict(t, tbl, row) \/ ForeignKeyConflict(t, row, allRows)

\* A faulty link that replaces the rows of left_id by the new row.
ManyToManyRepository_link_replacing(tbl, left_id, right_id, left_key, right_key) ==
    LET row  == LinkRow(left_id, right_id, left_key, right_key)
        kept == {r \in DOMAIN tbl : r[left_key] # left_id}
    IN  [r \in kept \cup {row} |-> IF r \in kept THEN tbl[r] ELSE 1]

\* ManyToManyRepository.link: the table after execute + commit.
ManyToManyRepository_link(tbl, left_id, right_id, left_key, right_key) ==
    LET row == LinkRow(left_id, right_id, left_key, right_key)
    IN  IF row \in DOMAIN tbl THEN [tbl EXCEPT ![row] = @ + 1]
        ELSE tbl @@ (row :> 1)

\* A faulty unlink whose WHERE clause forgets right_key.
ManyToManyRepository_unlink_any(tbl, left_id, right_id, left_key, right_key) ==
    LET hit == {r \in DOMAIN tbl : r[left_key] = left_id}
    IN  [r \in DOMAIN tbl \ hit |-> tbl[r]]

\* ManyToManyRepository.unlink: DELETE ... WHERE left_key = .. AND right_key = ..
ManyToManyRepository_unlink(tbl, left_id, right_id, left_key, right_key) ==
    LET hit == {r \in DOMAIN tbl : r[left_key] = left_id /\ r[right_key] = right_id}
    IN  [r \in DOMAIN tbl \ hit |-> tbl[r]]

\* ManyToManyRepository.get_links: SELECT right_key WHERE left_key = left_id,
\* one list element per row, in key order.
ManyToManyRepository_get_links(tbl, left_id, left_key, right_key) ==
    LET hit == {r \in DOMAIN tbl : r[left_key] = left_id}
        ids == SortedSeq({r[right_key] : r \in hit})
    IN  Flatten([i \in DOMAIN ids |->
            Repeat(ids[i],
                   tbl[CHOOSE r \in hit : r[right_key] = ids[i]])])

(***************************************************************************)
(* Request and response schemas (app/domains/<kind>/schema.py).            *)
(***************************************************************************)
\* The default a pydantic Field(str, ...) declares: the class str itself.
StrClass == "<class 'str'>"

\* <Kind>CreateSchema: the fields that have a default, with the default.
CreateSchemaDefaults(k) ==
    CASE k = "Enterprise" -> NoKwargs
      [] k = "IAGroup"    -> [description |-> StrClass, created_by |-> "system"]
      [] k = "Agent"      -> [description |-> StrClass, system_message |-> StrClass,
                              created_by |-> "system"]
      [] k = "Tool"       -> [description |-> StrClass, path |-> StrClass,
                              created_by |-> "system"]
      [] k = "User"       -> [is_admin |-> FALSE, created_by |-> "system"]

CreateSchemaFields(k) == DomainAttrs(k) \cup {"created_by"}

\* <Kind>UpdateSchema: the fields, and those of them that have a default.
UpdateSchemaFields(k) ==
    IF k = "User" THEN DomainAttrs(k) \cup {"status", "updated_by"}
    ELSE DomainAttrs(k) \cup {"updated_by"}

UpdateSchemaDefaults(k) ==
    CASE k = "Enterprise" -> NoKwargs
      [] k = "IAGroup"    -> [name |-> None, description |-> None, updated_by |-> "system"]
      [] k = "Agent"      -> [name |-> None, description |-> None,
                              system_message |-> StrClass, updated_by |-> "system"]
      [] k = "Tool"       -> [name |-> None, description |-> None,
                              path |-> StrClass, updated_by |-> "system"]
      [] k = "User"       -> [name |-> None, email |-> None, password |-> None,
                              is_admin |-> None, status |-> None, updated_by |-> "system"]

\* Request validation: a body is accepted when it names only fields of the
\* schema and every field without a default.
SchemaAccepts(fields, defaults, body) ==
    /\ DOMAIN body \subseteq fields
    /\ (fields \ DOMAIN defaults) \subseteq DOMAIN body

\* The validated create schema as keyword arguments: the body, completed
\* with the defaults of the fields it leaves out.
CreateKwargs(k, body) ==
    [c \in DOMAIN body \cup DOMAIN CreateSchemaDefaults(k) |->
        IF c \in DOMAIN body THEN body[c] ELSE CreateSchemaDefaults(k)[c]]

\* The validated update schema as keyword arguments: the fields the body set.
UpdateKwargs(k, body) == body

\* hash_password (bcrypt), up to the salt.
hash_password(p) == IF p = "v0" THEN "h0" ELSE "h1"

HashedPassword(kwargs) ==
    [c \in DOMAIN kwargs |->
        IF c = "password" THEN hash_password(kwargs[c]) ELSE kwargs[c]]

\* <Kind>ResponseSchema: the attributes model_validate copies from the row.
ResponseFields(k) ==
    CASE k = "Enterprise" -> {"id", "name", "description", "ia_model",
                              "created_at", "created_by"}
      [] k = "IAGroup"    -> {"id", "name", "description"} \cup TimestampColumns \cup AuditColumns
      [] k = "Agent"      -> {"id", "name", "description", "system_message"}
                             \cup TimestampColumns \cup AuditColumns
      [] k = "Tool"       -> {"id", "name", "description", "path"}
                             \cup TimestampColumns \cup AuditColumns
      [] k = "User"       -> {"id", "name", "email", "is_admin", "status"}
                             \cup TimestampColumns \cup AuditColumns

\* <Kind>ResponseSchema.model_validate(row)
model_validate(k, row) == [c \in ResponseFields(k) |-> row[c]]

(***************************************************************************)
(* NotFoundException (app/api/exceptions.py) and the outcome of a call.    *)
(***************************************************************************)
\* The resource name each service passes to NotFoundException for its own kind.
ResourceName(k) == IF k = "IAGroup" THEN "IA Group" ELSE k

\* wrote: the number of rows the call inserted, updated or deleted.
Returned(op, k, id, other, steps, wrote, value) ==
    [op |-> op, kind |-> k, id |-> id, other |-> other, outcome |-> "ok",
     resource |-> "", resource_id |-> 0, steps |-> steps, wrote |-> wrote,
     value |-> value]

Raised(op, k, id, other, steps, exc, resource, resource_id) ==
    [op |-> op, kind |-> k, id |-> id, other |-> other, outcome |-> exc,
     resource |-> resource, resource_id |-> resource_id, steps |-> steps,
     wrote |-> 0, value |-> <<>>]

NotFoundException(op, k, id, other, steps, resource, resource_id) ==
    Raised(op, k, id, other, steps, "NotFoundException", resource, resource_id)

IntegrityError(op, k, id, other, steps) ==
    Raised(op, k, id, other, steps, "IntegrityError", "", 0)

ValidationError(op, k, id) ==
    Raised(op, k, id, 0, <<>>, "RequestValidationError", "", 0)

(***************************************************************************)
(* The state after construction: empty stores.                             *)
(***************************************************************************)
EmptyStore == [i \in {} |-> None]

\* No link request is in flight.
Idle == [pc |-> "idle", op |-> "", id |-> 0, other |-> 0]

\* The workers that serve requests at the same time, one session each.
Sessions == {1, 2}

\* The identity map of a new Session: no object loaded.
EmptyIdentity == [k \in Kinds |-> EmptyStore]

\* One Session kept open for all the requests of a worker.
get_db_keeping(identity) == identity

\* get_db: a request gets a Session of its own from db.get_session() and
\* the Session is closed when the request ends; the identity map the next
\* request of the worker starts with holds nothing of the one before.
get_db(identity) == EmptyIdentity

\* A worker between two requests.
Closed(identity) ==
    [pc |-> "closed", op |-> "", kind |-> "", id |-> 0, other |-> 0,
     body |-> NoKwargs, identity |-> get_db(identity)]

Init ==
    /\ rows = [k \in Kinds |-> EmptyStore]
    /\ assoc = [t \in Tables |-> EmptyBag]
    /\ now = 0
    /\ result = Returned("init", "", 0, 0, <<>>, 0, <<>>)
    /\ created = [k \in Kinds |-> EmptyStore]
    /\ assigned = [k \in Kinds |-> {}]
    /\ pending = Idle
    /\ sessions = [s \in Sessions |-> Closed(EmptyIdentity)]

(***************************************************************************)
(* Services: CRUD (app/domains/<kind>/service.py).                         *)
(***************************************************************************)
\* <Kind>Service.create, behind the validation of the request body.
Create(k, body, cap) ==
    /\ TotalRows < cap
    /\ NextId(rows[k]) <= MaxId
    /\ IF ~SchemaAccepts(CreateSchemaFields(k), CreateSchemaDefaults(k), body)
       THEN /\ result' = ValidationError("create", k, 0)
            /\ UNCHANGED <<rows, assoc, now, created, pending, sessions>>
       ELSE LET schema == CreateKwargs(k, body)
                kwargs == IF k = "User" THEN HashedPassword(schema) ELSE schema
                id     == NextId(rows[k])
            IN  IF MissingColumns(k, kwargs) # {}
                THEN /\ result' = IntegrityError("create", k, 0, 0, <<>>)
                     /\ UNCHANGED <<rows, assoc, now, created, pending, sessions>>
                ELSE LET store == BaseRepository_create(rows[k], k, kwargs, now)
                     IN  /\ rows' = [rows EXCEPT ![k] = store]
                         /\ result' = Returned("create", k, id, 0, <<>>, 1,
                                               <<model_validate(k, store[id])>>)
                         /\ created' = [created EXCEPT ![k] =
                                (id :> store[id]) @@ created[k]]
                         /\ UNCHANGED <<assoc, now, pending, sessions>>

\* <Kind>Service.list_all
ListAll(k) ==
    /\ result' = Returned("list_all", k, 0, 0, <<>>, 0,
           LET all == BaseRepository_get_all(rows[k])
           IN  [i \in DOMAIN all |-> model_validate(k, all[i])])
    /\ UNCHANGED <<rows, assoc, now, created, assigned, pending, sessions>>

\* <Kind>Service.list_by_id
ListById(k, id) ==
    /\ LET found == BaseRepository_get_by_id(rows[k], id)
       IN  result' = IF found = <<>>
                     THEN NotFoundException("list_by_id", k, id, 0, <<>>, ResourceName(k), id)
                     ELSE Returned("list_by_id", k, id, 0, <<>>, 0,
                                   <<model_validate(k, found[1])>>)
    /\ UNCHANGED <<rows, assoc, now, created, assigned, pending, sessions>>

\* <Kind>Service.update, behind the validation of the request body.
Update(k, id, body) ==
    IF ~SchemaAccepts(UpdateSchemaFields(k), UpdateSchemaDefaults(k), body)
    THEN /\ result' = ValidationError("update", k, id)
         /\ UNCHANGED <<rows, assoc, now, created, assigned, pending, sessions>>
    ELSE LET found == BaseRepository_get_by_id(rows[k], id)
         IN  IF found = <<>>
             THEN /\ result' = NotFoundException("update", k, id, 0, <<>>, ResourceName(k), id)
                  /\ UNCHANGED <<rows, assoc, now, created, assigned, pending, sessions>>
             ELSE LET schema  == UpdateKwargs(k, body)
                      kwargs  == IF k = "User" THEN HashedPassword(schema) ELSE schema
                      updated == BaseRepository_update(found[1], kwargs, now)
                  IN  /\ rows' = [rows EXCEPT ![k][id] = updated]
                      /\ result' = Returned("update", k, id, 0, <<>>,
                                            IF updated = found[1] THEN 0 ELSE 1,
                                            <<model_validate(k, updated)>>)
                      /\ created' = [created EXCEPT ![k] = Without(@, id)]
                      /\ UNCHANGED <<assoc, now, assigned, pending, sessions>>

\* A logical_delete that also purges the association rows of the entity.
LogicalDelete_purging(k, id) ==
    LET found == BaseRepository_get_by_id(rows[k], id)
    IN  IF found = <<>>
        THEN /\ result' = NotFoundException("logical_delete", k, id, 0, <<>>,
                                            ResourceName(k), id)
             /\ UNCHANGED <<rows, assoc, now, created, assigned, pending, sessions>>
        ELSE LET deleted == BaseRepository_logical_delete(found[1], now)
             IN  /\ rows' = [rows EXCEPT ![k][id] = deleted]
                 /\ assoc' = [t \in Tables |->
                        LET gone == {r \in DOMAIN assoc[t] : \E c \in TableColumns(t) :
                                        ForeignKeyKind(c) = k /\ r[c] = id}
                        IN  [r \in DOMAIN assoc[t] \ gone |-> assoc[t][r]]]
                 /\ result' = Returned("logical_delete", k, id, 0, <<>>,
                                       IF deleted = found[1] THEN 0 ELSE 1, <<>>)
                 /\ created' = [created EXCEPT ![k] = Without(@, id)]
                 /\ UNCHANGED <<now, assigned, pending, sessions>>

\* <Kind>Service.logical_delete
LogicalDelete(k, id) ==
    LET found == BaseRepository_get_by_id(rows[k], id)
    IN  IF found = <<>>
        THEN /\ result' = NotFoundException("logical_delete", k, id, 0, <<>>,
                                            ResourceName(k), id)
             /\ UNCHANGED <<rows, assoc, now, created, assigned, pending, sessions>>
        ELSE LET deleted == BaseRepository_logical_delete(found[1], now)
             IN  /\ rows' = [rows EXCEPT ![k][id] = deleted]
                 /\ result' = Returned("logical_delete", k, id, 0, <<>>,
                                       IF deleted = found[1] THEN 0 ELSE 1, <<>>)
                 /\ created' = [created EXCEPT ![k] = Without(@, id)]
                 /\ UNCHANGED <<assoc, now, assigned, pending, sessions>>

\* <Kind>Service.delete
Delete(k, id) ==
    LET found == BaseRepository_get_by_id(rows[k], id)
    IN  IF found = <<>>
        THEN /\ result' = NotFoundException("delete", k, id, 0, <<>>, ResourceName(k), id)
             /\ UNCHANGED <<rows, assoc, now, created, assigned, pending, sessions>>
        ELSE LET after == AssocAfterDelete(k, id, assoc, rows)
             IN  /\ rows' = [rows EXCEPT ![k] = BaseRepository_delete(rows[k], id)]
                 /\ assoc' = after
                 /\ result' = Returned("delete", k, id, 0, <<>>,
                        1 + TotalLinks - LinksIn(after), <<>>)
                 /\ created' = [created EXCEPT ![k] = Without(@, id)]
                 /\ UNCHANGED <<now, assigned, pending, sessions>>

\* The store's clock advances between two requests.
Tick ==
    /\ now < MaxClock
    /\ now' = now + 1
    /\ UNCHANGED <<rows, assoc, result, created, assigned, pending, sessions>>

(***************************************************************************)
(* Services: relationships.                                                *)
(***************************************************************************)
\* A lookup that finds active rows only.
Session_get_active(store, id) ==
    IF id \in DOMAIN store /\ store[id].status THEN <<store[id]>> ELSE <<>>

\* self._session.get(Other, other_id): <<row>> when found, <<>> otherwise.
Session_get(store, id) == IF id \in DOMAIN store THEN <<store[id]>> ELSE <<>>

\* The shape of link_<other>(this_id, other_id): load this entity, load the
\* other entity when the service does so, then ManyToManyRepository.link.
LinkCall(op, k, other_k, checks_other, other_name, t, left_key, right_key, this_id, other_id) ==
    LET this  == BaseRepository_get_by_id(rows[k], this_id)
        other == Session_get(rows[other_k], other_id)
        s1    == <<"load_this">>
        s2    == IF checks_other THEN s1 \o <<"load_other">> ELSE s1
        s3    == s2 \o <<"insert">>
        row   == LinkRow(this_id, other_id, left_key, right_key)
    IN  IF this = <<>>
        THEN /\ result' = NotFoundException(op, k, this_id, other_id, s1,
                                            ResourceName(k), this_id)
             /\ UNCHANGED <<rows, assoc, now, created, assigned, pending, sessions>>
        ELSE IF checks_other /\ other = <<>>
        THEN /\ result' = NotFoundException(op, k, this_id, other_id, s2,
                                            other_name, other_id)
             /\ UNCHANGED <<rows, assoc, now, created, assigned, pending, sessions>>
        ELSE IF LinkRaises(t, assoc[t], row, rows)
        THEN /\ result' = IntegrityError(op, k, this_id, other_id, s3)
             /\ UNCHANGED <<rows, assoc, now, created, assigned, pending, sessions>>
        ELSE /\ TotalLinks < MaxLinks
             /\ assoc' = [assoc EXCEPT ![t] =
                 ManyToManyRepository_link(@, this_id, other_id, left_key, right_key)]
             /\ result' = Returned(op, k, this_id, other_id, s3, 1, <<>>)
             /\ UNCHANGED <<rows, now, created, assigned, pending, sessions>>

\* An unlink that looks this entity up first, as link does.
UnlinkCall_checking(op, k, t, left_key, right_key, this_id, other_id) ==
    LET after == ManyToManyRepository_unlink(assoc[t], this_id, other_id,
                                             left_key, right_key)
    IN  IF BaseRepository_get_by_id(rows[k], this_id) = <<>>
        THEN /\ result' = NotFoundException(op, k, this_id, other_id, <<"load_this">>,
                                            ResourceName(k), this_id)
             /\ UNCHANGED <<rows, assoc, now, created, assigned, pending, sessions>>
        ELSE /\ assoc' = [assoc EXCEPT ![t] = after]
             /\ result' = Returned(op, k, this_id, other_id, <<"delete">>,
                                   BagCardinality(assoc[t]) - BagCardinality(after), <<>>)
             /\ UNCHANGED <<rows, now, created, assigned, pending, sessions>>

\* The shape of unlink_<other>(this_id, other_id).
UnlinkCall(op, k, t, left_key, right_key, this_id, other_id) ==
    LET after == ManyToManyRepository_unlink(assoc[t], this_id, other_id,
                                             left_key, right_key)
    IN  /\ assoc' = [assoc EXCEPT ![t] = after]
        /\ result' = Returned(op, k, this_id, other_id, <<"delete">>,
                              BagCardinality(assoc[t]) - BagCardinality(after), <<>>)
        /\ UNCHANGED <<rows, now, created, assigned, pending, sessions>>

\* The shape of list_<other>(this_id).
ListLinksCall(op, k, t, left_key, right_key, this_id) ==
    /\ result' = Returned(op, k, this_id, 0, <<>>, 0,
           ManyToManyRepository_get_links(assoc[t], this_id, left_key, right_key))
    /\ UNCHANGED <<rows, assoc, now, created, assigned, pending, sessions>>

EnterpriseService_link_ia_group(enterprise_id, ia_group_id) ==
    LinkCall("link_ia_group", "Enterprise", "IAGroup", TRUE, "IAGroup",
             "enterprise_ia_group", "enterprise_id", "ia_group_id",
             enterprise_id, ia_group_id)

EnterpriseService_unlink_ia_group(enterprise_id, ia_group_id) ==
    UnlinkCall("unlink_ia_group", "Enterprise", "enterprise_ia_group",
               "enterprise_id", "ia_group_id", enterprise_id, ia_group_id)

EnterpriseService_list_ia_groups(enterprise_id) ==
    ListLinksCall("list_ia_groups", "Enterprise", "enterprise_ia_group",
                  "enterprise_id", "ia_group_id", enterprise_id)

IAGroupService_link_agent(ia_group_id, agent_id) ==
    LinkCall("link_agent", "IAGroup", "Agent", TRUE, "Agent",
             "ia_group_agent", "ia_group_id", "agent_id", ia_group_id, agent_id)

IAGroupService_unlink_agent(ia_group_id, agent_id) ==
    UnlinkCall("unlink_agent", "IAGroup", "ia_group_agent",
               "ia_group_id", "agent_id", ia_group_id, agent_id)

IAGroupService_list_agents(ia_group_id) ==
    ListLinksCall("list_agents", "IAGroup", "ia_group_agent",
                  "ia_group_id", "agent_id", ia_group_id)

\* link_enterprise loads the User only; the Enterprise is not looked up.
UserService_link_enterprise(user_id, enterprise_id) ==
    LinkCall("link_enterprise", "User", "Enterprise", FALSE, "Enterprise",
             "user_enterprise", "user_id", "enterprise_id", user_id, enterprise_id)

UserService_unlink_enterprise(user_id, enterprise_id) ==
    UnlinkCall("unlink_enterprise", "User", "user_enterprise",
               "user_id", "enterprise_id", user_id, enterprise_id)

UserService_list_enterprises(user_id) ==
    ListLinksCall("list_enterprises", "User", "user_enterprise",
                  "user_id", "enterprise_id", user_id)

\* The Agent routes call link_tool, unlink_tool and list_tools of AgentService.
AgentService_link_tool(agent_id, tool_id) ==
    LinkCall("link_tool", "Agent", "Tool", TRUE, "Tool",
             "agent_tool", "agent_id", "tool_id", agent_id, tool_id)

AgentService_unlink_tool(agent_id, tool_id) ==
    UnlinkCall("unlink_tool", "Agent", "agent_tool",
               "agent_id", "tool_id", agent_id, tool_id)

AgentService_list_tools(agent_id) ==
    ListLinksCall("list_tools", "Agent", "agent_tool",
                  "agent_id", "tool_id", agent_id)

(***************************************************************************)
(* Request bodies the model draws from.                                    *)
(***************************************************************************)
\* Every domain attribute of the create schema, without created_by.
BareBody(k) == [c \in DomainAttrs(k) \ {"is_admin"} |-> "v0"]

\* The same with an explicit created_by.
SignedBody(k) == BareBody(k) @@ [created_by |-> "ana"]

CreateBodies(k) == {BareBody(k), SignedBody(k)}

\* The second domain attribute of each kind.
SecondAttr(k) == IF k = "User" THEN "email" ELSE "description"

\* A body that names every field of the update schema that has no default.
FullBody(k) ==
    [c \in UpdateSchemaFields(k) \ DOMAIN UpdateSchemaDefaults(k) |-> "v0"]

\* name := "v1", with every field the schema requires.
RenameBody(k) == [name |-> "v1"] @@ FullBody(k)

UpdateBodies(k) ==
    {FullBody(k),
     RenameBody(k),
     (SecondAttr(k) :> "v1") @@ [updated_by |-> "ana"] @@ FullBody(k),
     [name |-> "v1"]}
    \cup (IF k = "User" THEN {[status |-> TRUE], [status |-> FALSE]} ELSE {})

(***************************************************************************)
(* Specifications.                                                         *)
(***************************************************************************)
\* The association tables that have link, unlink and list routes.
LinkTables == {"enterprise_ia_group", "ia_group_agent", "user_enterprise", "agent_tool"}

\* The two kinds association table t relates.
TableKinds(t) == {ForeignKeyKind(c) : c \in TableColumns(t)}

KindsPresent == {k \in Kinds : ExistingIds(k) # {}}

\* One relationship at a time: the rows present belong to the two kinds of
\* association table t and the other association tables are empty.
TableInScope(t) ==
    /\ KindsPresent \subseteq TableKinds(t)
    /\ \A u \in Tables \ {t} : assoc[u] = EmptyBag

InScope(k) ==
    \E t \in LinkTables :
        /\ KindsPresent \cup {k} \subseteq TableKinds(t)
        /\ \A u \in Tables \ {t} : assoc[u] = EmptyBag

Links ==
    \/ /\ TableInScope("enterprise_ia_group")
       /\ \/ \E a, b \in Ids : EnterpriseService_link_ia_group(a, b)
          \/ \E a, b \in Ids : EnterpriseService_unlink_ia_group(a, b)
          \/ \E a \in Ids : EnterpriseService_list_ia_groups(a)
    \/ /\ TableInScope("ia_group_agent")
       /\ \/ \E a, b \in Ids : IAGroupService_link_agent(a, b)
          \/ \E a, b \in Ids : IAGroupService_unlink_agent(a, b)
          \/ \E a \in Ids : IAGroupService_list_agents(a)
    \/ /\ TableInScope("user_enterprise")
       /\ \/ \E a, b \in Ids : UserService_link_enterprise(a, b)
          \/ \E a, b \in Ids : UserService_unlink_enterprise(a, b)
          \/ \E a \in Ids : UserService_list_enterprises(a)
    \/ /\ TableInScope("agent_tool")
       /\ \/ \E a, b \in Ids : AgentService_link_tool(a, b)
          \/ \E a, b \in Ids : AgentService_unlink_tool(a, b)
          \/ \E a \in Ids : AgentService_list_tools(a)

\* Relationship management: create, physical delete, link, unlink, list.
Next ==
    \/ \E k \in Kinds : InScope(k) /\ Create(k, SignedBody(k), MaxRows) /\ UNCHANGED assigned
    \/ \E k \in Kinds, id \in Ids : InScope(k) /\ Delete(k, id)
    \/ Links

Spec == Init /\ [][Next]_vars

(***************************************************************************)
(* Properties of relationship management, checked under Spec.              *)
(***************************************************************************)
\* C1: every link_<other> call (link_ia_group, link_agent, link_enterprise)
\* made for an existing entity with an other_id no entity of the other kind
\* has raises NotFoundException carrying the other kind's name and other_id,
\* and leaves the association stores, hence list_<other>(this_id), unchanged.
C1_LinkAbsentOtherRaisesNotFound ==
    [][\A a, b \in Ids :
        LET Refused(name) ==
                /\ result'.outcome = "NotFoundException"
                /\ result'.resource = name
                /\ result'.resource_id = b
                /\ assoc' = assoc
        IN  /\ ( /\ EnterpriseService_link_ia_group(a, b)
                 /\ a \in ExistingIds("Enterprise")
                 /\ b \notin ExistingIds("IAGroup") ) => Refused("IAGroup")
            /\ ( /\ IAGroupService_link_agent(a, b)
                 /\ a \in ExistingIds("IAGroup")
                 /\ b \notin ExistingIds("Agent") ) => Refused("Agent")
            /\ ( /\ UserService_link_enterprise(a, b)
                 /\ a \in ExistingIds("User")
                 /\ b \notin ExistingIds("Enterprise") ) => Refused("Enterprise")
      ]_vars

\* C2: every link_<other>(this_id, other_id) call loads this entity, then the
\* other entity, then inserts the association row; it inserts only when both
\* loads found a row; when this entity is absent it raises NotFoundException
\* with the name of its own kind and this_id, and writes no association row.
C2_LinkLoadsBothBeforeInsert ==
    [][\A a, b \in Ids :
        LET InOrder(k, other_k) ==
                /\ result'.steps \in {<<"load_this">>,
                                      <<"load_this", "load_other">>,
                                      <<"load_this", "load_other", "insert">>}
                /\ "insert" \in SeqToSet(result'.steps) =>
                       a \in ExistingIds(k) /\ b \in ExistingIds(other_k)
                /\ a \notin ExistingIds(k) =>
                       /\ result'.outcome = "NotFoundException"
                       /\ result'.resource = ResourceName(k)
                       /\ result'.resource_id = a
                       /\ assoc' = assoc
        IN  /\ EnterpriseService_link_ia_group(a, b) => InOrder("Enterprise", "IAGroup")
            /\ IAGroupService_link_agent(a, b) => InOrder("IAGroup", "Agent")
            /\ UserService_link_enterprise(a, b) => InOrder("User", "Enterprise")
      ]_vars

\* C3: for existing entities a and b that are not linked, after link(a, b)
\* get_links(a) contains b; after unlink(a, b) get_links(a) does not contain
\* b.  Stated for every relationship that has link routes.
C3_LinkUnlinkRoundTrip ==
    [][\A a, b \in Ids :
        LET Listed(tbl, lk, rk) ==
                b \in SeqToSet(ManyToManyRepository_get_links(tbl, a, lk, rk))
            RoundTrip(Link(_, _), Unlink(_, _), k, other_k, t, lk, rk) ==
                /\ ( /\ Link(a, b)
                     /\ a \in ExistingIds(k)
                     /\ b \in ExistingIds(other_k)
                     /\ ~Listed(assoc[t], lk, rk) ) => Listed(assoc'[t], lk, rk)
                /\ Unlink(a, b) => ~Listed(assoc'[t], lk, rk)
        IN  /\ RoundTrip(EnterpriseService_link_ia_group,
                         EnterpriseService_unlink_ia_group, "Enterprise", "IAGroup",
                         "enterprise_ia_group", "enterprise_id", "ia_group_id")
            /\ RoundTrip(IAGroupService_link_agent,
                         IAGroupService_unlink_agent, "IAGroup", "Agent",
                         "ia_group_agent", "ia_group_id", "agent_id")
            /\ RoundTrip(UserService_link_enterprise,
                         UserService_unlink_enterprise, "User", "Enterprise",
                         "user_enterprise", "user_id", "enterprise_id")
            /\ RoundTrip(AgentService_link_tool,
                         AgentService_unlink_tool, "Agent", "Tool",
                         "agent_tool", "agent_id", "tool_id")
      ]_vars

\* C4: unlink(a, b) never raises; on a pair that is not linked it leaves the
\* association stores unchanged; after it, and so after each of two calls in
\* sequence, get_links(a) does not contain b.  (Called: the step is the call
\* that result' reports.)
C4_UnlinkIdempotent ==
    [][\A a, b \in Ids :
        LET Quiet(t, lk, rk) ==
                /\ result'.outcome = "ok"
                /\ LinkRow(a, b, lk, rk) \notin DOMAIN assoc[t] => assoc' = assoc
                /\ b \notin SeqToSet(ManyToManyRepository_get_links(assoc'[t], a, lk, rk))
            Called(op) == result'.op = op /\ result'.id = a /\ result'.other = b
        IN  /\ (Called("unlink_ia_group") /\ EnterpriseService_unlink_ia_group(a, b)) =>
                   Quiet("enterprise_ia_group", "enterprise_id", "ia_group_id")
            /\ (Called("unlink_agent") /\ IAGroupService_unlink_agent(a, b)) =>
                   Quiet("ia_group_agent", "ia_group_id", "agent_id")
            /\ (Called("unlink_enterprise") /\ UserService_unlink_enterprise(a, b)) =>
                   Quiet("user_enterprise", "user_id", "enterprise_id")
            /\ (Called("unlink_tool") /\ AgentService_unlink_tool(a, b)) =>
                   Quiet("agent_tool", "agent_id", "tool_id")
      ]_vars

\* An unlink of a pair that was not linked has returned, while another pair
\* of the same left entity is linked.
C4_UnlinkedPairUnlinked ==
    /\ result.op \in {"unlink_ia_group", "unlink_agent", "unlink_enterprise", "unlink_tool"}
    /\ result.outcome = "ok"
    /\ result.wrote = 0
    /\ \E t \in LinkTables : \E r \in DOMAIN assoc[t] :
           \E c \in TableColumns(t) : ForeignKeyKind(c) = result.kind /\ r[c] = result.id

(***************************************************************************)
(* Specifications of the entity life cycle.                                *)
(***************************************************************************)
\* One entity store at a time: every row present is of kind k.
OnlyKind(k) == KindsPresent \subseteq {k}

\* Entity stores of several rows: create, read, rename, soft and physical
\* delete, and the clock.
NextCrud ==
    \/ \E k \in Kinds : OnlyKind(k) /\ Create(k, SignedBody(k), MaxCrudRows) /\ UNCHANGED assigned
    \/ \E k \in Kinds : OnlyKind(k) /\ ListAll(k)
    \/ \E k \in Kinds, id \in Ids : OnlyKind(k) /\ ListById(k, id)
    \/ \E k \in Kinds, id \in Ids : OnlyKind(k) /\ Update(k, id, RenameBody(k))
    \/ \E k \in Kinds, id \in Ids : OnlyKind(k) /\ LogicalDelete(k, id)
    \/ \E k \in Kinds, id \in Ids : OnlyKind(k) /\ Delete(k, id)
    \/ Tick

SpecCrud == Init /\ [][NextCrud]_vars

\* The life cycle of one entity: every body, every update, the clock, and
\* the relationship calls made while it is the only row.
NextLife ==
    \/ \E k \in Kinds : \E body \in CreateBodies(k) :
           TotalRows = 0 /\ Create(k, body, MaxRows) /\ UNCHANGED assigned
    \/ \E k \in Kinds, id \in Ids : OnlyKind(k) /\ ListById(k, id)
    \/ \E k \in Kinds, id \in Ids : \E body \in UpdateBodies(k) :
           OnlyKind(k) /\ Update(k, id, body)
    \/ \E k \in Kinds, id \in Ids : OnlyKind(k) /\ LogicalDelete(k, id)
    \/ \E k \in Kinds, id \in Ids : OnlyKind(k) /\ Delete(k, id)
    \/ Links
    \/ Tick

SpecLife == Init /\ [][NextLife]_vars

(***************************************************************************)
(* Properties of the entity life cycle, checked under SpecCrud, SpecLife.  *)
(***************************************************************************)
\* C5: logical_delete(id) of an existing entity never raises and leaves it
\* with status = FALSE; called on an entity that is already inactive, as the
\* second of two calls in sequence is, it changes no field of any row.
C5_LogicalDeleteIdempotent ==
    [][\A k \in Kinds, id \in Ids :
        ( /\ result'.op = "logical_delete" /\ result'.kind = k /\ result'.id = id
          /\ LogicalDelete(k, id)
          /\ id \in ExistingIds(k) ) =>
            /\ result'.outcome = "ok"
            /\ rows'[k][id].status = FALSE
            /\ rows[k][id].status = FALSE => rows' = rows /\ assoc' = assoc
      ]_vars

\* A logical_delete that wrote nothing has returned for an inactive entity
\* whose last write was at time 0, and the clock is past 0.
C5_SecondLogicalDeleteLater ==
    /\ result.op = "logical_delete"
    /\ result.outcome = "ok"
    /\ result.wrote = 0
    /\ result.id \in ExistingIds(result.kind)
    /\ rows[result.kind][result.id].status = FALSE
    /\ rows[result.kind][result.id].updated_at = Some(0)
    /\ now > 0

C7_OnlyLogicalDeleteChangesStatus ==
    [][\A k \in Kinds, id \in Ids :
        /\ (id \notin ExistingIds(k) /\ id \in DOMAIN rows'[k]) =>
               rows'[k][id].status = TRUE
        /\ ( /\ id \in ExistingIds(k)
             /\ id \in DOMAIN rows'[k]
             /\ rows'[k][id].status # rows[k][id].status ) =>
               /\ rows[k][id].status = TRUE
               /\ LogicalDelete(k, id)
      ]_vars

\* C8: an entity returned by create is what get_by_id of its id returns, in
\* every column, as long as no update, logical_delete or delete has been
\* applied to it, whatever was done to other entities.
C8_ReadAfterCreate ==
    \A k \in Kinds : \A id \in DOMAIN created[k] :
        BaseRepository_get_by_id(rows[k], id) = <<created[k][id]>>

\* list_by_id has returned an entity that is as create returned it, while
\* another entity of its kind has been renamed or logically deleted.
C8_ReadWhileOtherMutated ==
    /\ result.op = "list_by_id"
    /\ result.outcome = "ok"
    /\ result.id \in DOMAIN created[result.kind]
    /\ \E j \in ExistingIds(result.kind) \ {result.id} :
           rows[result.kind][j].updated_at # None

C10_OneRowPerPairManyToMany ==
    [][/\ \A t \in Tables : \A r \in DOMAIN assoc'[t] : assoc'[t][r] = 1
       /\ \A a, b \in Ids :
            LET Pairs(Link(_, _), k, other_k, t, lk, rk) ==
                    LET row == LinkRow(a, b, lk, rk)
                    IN  /\ (Link(a, b) /\ row \in DOMAIN assoc[t]) => assoc' = assoc
                        /\ ( /\ Link(a, b)
                             /\ a \in ExistingIds(k)
                             /\ b \in ExistingIds(other_k)
                             /\ row \notin DOMAIN assoc[t] ) =>
                               /\ result'.outcome = "ok"
                               /\ DOMAIN assoc'[t] = DOMAIN assoc[t] \cup {row}
            IN  /\ Pairs(EnterpriseService_link_ia_group, "Enterprise", "IAGroup",
                         "enterprise_ia_group", "enterprise_id", "ia_group_id")
                /\ Pairs(IAGroupService_link_agent, "IAGroup", "Agent",
                         "ia_group_agent", "ia_group_id", "agent_id")
                /\ Pairs(UserService_link_enterprise, "User", "Enterprise",
                         "user_enterprise", "user_id", "enterprise_id")
                /\ Pairs(AgentService_link_tool, "Agent", "Tool",
                         "agent_tool", "agent_id", "tool_id")
      ]_vars

\* C11: a link_<other>(a, b) call for two existing entities whose pair is
\* already in the association table raises the store's IntegrityError, as
\* raised by the INSERT (no NotFoundException, no other outcome), and the
\* association stores and the entity stores are the same after the call.
C11_RelinkRaisesIntegrityError ==
    [][\A a, b \in Ids :
        LET Called(op) == result'.op = op /\ result'.id = a /\ result'.other = b
            Rejected(Link(_, _), k, other_k, t, lk, rk) ==
                ( /\ Link(a, b)
                  /\ a \in ExistingIds(k)
                  /\ b \in ExistingIds(other_k)
                  /\ LinkRow(a, b, lk, rk) \in DOMAIN assoc[t] ) =>
                    /\ result'.outcome = "IntegrityError"
                    /\ result'.steps[Len(result'.steps)] = "insert"
                    /\ assoc' = assoc
                    /\ rows' = rows
        IN  /\ Called("link_ia_group") =>
                Rejected(EnterpriseService_link_ia_group, "Enterprise", "IAGroup",
                         "enterprise_ia_group", "enterprise_id", "ia_group_id")
            /\ Called("link_agent") =>
                Rejected(IAGroupService_link_agent, "IAGroup", "Agent",
                         "ia_group_agent", "ia_group_id", "agent_id")
            /\ Called("link_enterprise") =>
                Rejected(UserService_link_enterprise, "User", "Enterprise",
                         "user_enterprise", "user_id", "enterprise_id")
            /\ Called("link_tool") =>
                Rejected(AgentService_link_tool, "Agent", "Tool",
                         "agent_tool", "agent_id", "tool_id")
      ]_vars

\* A link call has raised IntegrityError for a pair whose row is in the table
\* and whose two entities exist.
C11_RelinkRefused ==
    /\ result.op \in {"link_ia_group", "link_agent", "link_enterprise", "link_tool"}
    /\ result.outcome = "IntegrityError"
    /\ result.id \in ExistingIds(result.kind)
    /\ \E t \in LinkTables : \E r \in DOMAIN assoc[t] :
           \A c \in TableColumns(t) :
               /\ r[c] = (IF ForeignKeyKind(c) = result.kind THEN result.id ELSE result.other)
               /\ r[c] \in ExistingIds(ForeignKeyKind(c))

\* C12: after a physical delete of the entity of kind k with id x has
\* succeeded, no association table holds a row that references x in a column
\* that is a foreign key to k, so get_links of a surviving partner does not
\* return x.
C12_DeleteCascades ==
    [][\A k \in Kinds, x \in Ids :
        ( /\ result'.op = "delete" /\ result'.kind = k /\ result'.id = x
          /\ result'.outcome = "ok"
          /\ Delete(k, x) ) =>
            \A t \in Tables : \A r \in DOMAIN assoc'[t] :
                \A c \in TableColumns(t) : ForeignKeyKind(c) = k => r[c] # x
      ]_vars

Assigns(k) ==
    assigned' = [assigned EXCEPT ![k] = @ \cup (DOMAIN rows'[k] \ DOMAIN rows[k])]

\* The kinds a create has assigned an id for.
KindsUsed == {k \in Kinds : assigned[k] # {}}

\* One entity store at a time, over its whole history.
OnlyKindEver(k) == KindsUsed \subseteq {k}

\* Entity stores with the history of their ids: create, rename, soft and
\* physical delete.
NextIds ==
    \/ \E k \in Kinds : OnlyKindEver(k) /\ Create(k, SignedBody(k), MaxCrudRows) /\ Assigns(k)
    \/ \E k \in Kinds, id \in Ids : OnlyKindEver(k) /\ Update(k, id, RenameBody(k))
    \/ \E k \in Kinds, id \in Ids : OnlyKindEver(k) /\ LogicalDelete(k, id)
    \/ \E k \in Kinds, id \in Ids : OnlyKindEver(k) /\ Delete(k, id)

SpecIds == Init /\ [][NextIds]_vars

\* C14: the ids of the rows of one entity store are pairwise distinct; update
\* and logical_delete leave the id of the entity they are applied to as it
\* was; and the id a create assigns was never assigned before by the store of
\* that kind, also when the row that held it has been physically deleted.
C14_IdentityNeverReused ==
    [][\A k \in Kinds :
        /\ \A i, j \in DOMAIN rows'[k] : i # j => rows'[k][i].id # rows'[k][j].id
        /\ \A id \in ExistingIds(k) :
               ( /\ result'.kind = k /\ result'.id = id
                 /\ result'.op \in {"update", "logical_delete"}
                 /\ result'.outcome = "ok" ) =>
                   /\ id \in DOMAIN rows'[k]
                   /\ rows'[k][id].id = rows[k][id].id
        /\ ( /\ result'.op = "create" /\ result'.kind = k /\ result'.outcome = "ok"
             /\ rows'[k] # rows[k] ) =>
               result'.id \notin assigned[k]
      ]_vars

\* C15: for every kind, a create whose body supplies no created_by succeeds
\* and stores created_by = "system"; the first Enterprise created from name,
\* description and ia_model alone is answered with id = 1, the active flag
\* true and created_by = "system".
C15_CreatedByDefaultsToSystem ==
    [][\A k \in Kinds :
        ( /\ result'.op = "create" /\ result'.kind = k
          /\ TotalRows = 0
          /\ Create(k, BareBody(k), MaxRows) ) =>
            /\ result'.outcome = "ok"
            /\ rows'[k][result'.id].created_by = "system"
            /\ k = "Enterprise" =>
                   LET response == result'.value[1]
                   IN  /\ response.id = 1
                       /\ response.created_by = "system"
                       /\ "status" \in DOMAIN response
                       /\ response.status = TRUE
      ]_vars

(***************************************************************************)
(* What the source defines: the classes, their methods and signatures, and *)
(* the calls the controllers and the services make on them.                *)
(***************************************************************************)
\* class BaseRepository(Generic[T]): the type parameters of the class.
RepositoryTypeParameters == <<"T">>

\* BaseRepository[<Kind>, <Kind>CreateSchema]: the type arguments the service
\* of kind k subscripts the class with.
ServiceTypeArguments(k) == <<k, k \o "CreateSchema">>

\* BaseRepository.__init__(self, model): the parameters after self.
RepositoryInitParameters == <<"model">>

\* (<Kind>, self._session): the arguments the service of kind k constructs
\* its repository with.
ServiceInitArguments(k) == <<k, "session">>

\* The methods BaseRepository defines.
RepositoryMethods == {"create", "get_all", "get_by_id", "update", "delete"}

\* The methods <Kind>Service defines.
ServiceMethods(k) ==
    {"create", "list_all", "list_by_id", "update", "delete", "logical_delete"}
    \cup (CASE k = "Enterprise" -> {"link_ia_group", "unlink_ia_group", "list_ia_groups"}
            [] k = "IAGroup"    -> {"link_agent", "unlink_agent", "list_agents"}
            [] k = "User"       -> {"link_enterprise", "unlink_enterprise", "list_enterprises"}
            [] OTHER            -> {})

\* The routes with the physical delete route of enterprise/controller.py
\* (commented out there) in service for every kind.
RouteCalls_deleting(k) == ServiceMethods(k) \cup {"delete"}

\* The service methods the routes of the controller of kind k call.
RouteCalls(k) ==
    {"create", "list_all", "list_by_id", "update", "logical_delete"}
    \cup (CASE k = "Enterprise" -> {"link_ia_group", "unlink_ia_group", "list_ia_groups"}
            [] k = "IAGroup"    -> {"link_agent", "unlink_agent", "list_agents"}
            [] k = "User"       -> {"link_enterprise", "unlink_enterprise", "list_enterprises"}
            [] k = "Agent"      -> {"link_tool", "unlink_tool", "list_tools"}
            [] OTHER            -> {})

\* The BaseRepository methods the service method op calls.
RepositoryCalls(op) ==
    CASE op = "create"         -> {"create"}
      [] op = "list_all"       -> {"get_all"}
      [] op = "list_by_id"     -> {"get_by_id"}
      [] op = "update"         -> {"get_by_id", "update"}
      [] op = "delete"         -> {"get_by_id", "delete"}
      [] op = "logical_delete" -> {"get_by_id", "logical_delete"}
      [] op \in {"link_ia_group", "link_agent", "link_enterprise", "link_tool"}
                               -> {"get_by_id"}
      [] OTHER                 -> {}

\* The operations the core offers for kind k: the methods of its service and
\* the methods its routes call.
Operations(k) == ServiceMethods(k) \cup RouteCalls(k)

\* Does the operation take an entity id, and a second one?
TakesId(op) == op \notin {"create", "list_all"}

TakesOther(op) ==
    op \in {"link_ia_group", "unlink_ia_group", "link_agent", "unlink_agent",
            "link_enterprise", "unlink_enterprise", "link_tool", "unlink_tool"}

\* The exception Python raises before the body of operation op of the service
\* of kind k can do its work, "none" when there is none: the subscript and
\* the construction of the repository in <Kind>Service.__init__, the lookup
\* of the method on the service, the lookup of the methods it calls on the
\* repository.
SourceFailure(k, op) ==
    IF Len(ServiceTypeArguments(k)) # Len(RepositoryTypeParameters) THEN "TypeError"
    ELSE IF Len(ServiceInitArguments(k)) # Len(RepositoryInitParameters) THEN "TypeError"
    ELSE IF op \notin ServiceMethods(k) THEN "AttributeError"
    ELSE IF ~(RepositoryCalls(op) \subseteq RepositoryMethods) THEN "AttributeError"
    ELSE "none"

\* The path parameters of a request: the ids, and 0, which no row has.
PathIds == 0 .. MaxId

\* A request for operation op of kind k that ends in the exception the
\* source raises before the operation's body has run.
Request(k, op, id, other) ==
    /\ SourceFailure(k, op) # "none"
    /\ result' = Raised(op, k, id, other, <<>>, SourceFailure(k, op), "", 0)
    /\ UNCHANGED <<rows, assoc, now, created, assigned, pending, sessions>>

\* Requests against the classes as the source defines them.
NextRoutes ==
    \E k \in Kinds : \E op \in Operations(k) : \E id, other \in PathIds :
        /\ TakesId(op) \/ id = 0
        /\ TakesOther(op) \/ other = 0
        /\ Request(k, op, id, other)

SpecRoutes == Init /\ [][NextRoutes]_vars

\* The outcomes the contract allows: the documented value, NotFound, the
\* store's constraint violation, the store being unavailable.
DocumentedOutcomes == {"ok", "NotFoundException", "IntegrityError", "OperationalError"}

\* C16: every operation the core offers (create, list_all, list_by_id,
\* update, logical_delete, delete, link_<other>, unlink_<other>,
\* list_<other>, for every kind and relationship that has routes) returns
\* its documented value or raises NotFoundException, the store's
\* IntegrityError or the store's OperationalError; no call ends in another
\* failure such as a missing method or a call with the wrong arguments.
C16_ClosedErrorSet == result.outcome \in DocumentedOutcomes

(***************************************************************************)
(* A link request interleaved with other requests, checked under SpecRace. *)
(***************************************************************************)
\* The link operations of the services, and what each one loads and inserts.
LinkOps == {"link_ia_group", "link_agent", "link_enterprise"}

LinkSignature(op) ==
    CASE op = "link_ia_group" ->
             [k |-> "Enterprise", other_k |-> "IAGroup", checks_other |-> TRUE,
              other_name |-> "IAGroup", t |-> "enterprise_ia_group",
              left_key |-> "enterprise_id", right_key |-> "ia_group_id"]
      [] op = "link_agent" ->
             [k |-> "IAGroup", other_k |-> "Agent", checks_other |-> TRUE,
              other_name |-> "Agent", t |-> "ia_group_agent",
              left_key |-> "ia_group_id", right_key |-> "agent_id"]
      [] op = "link_enterprise" ->
             [k |-> "User", other_k |-> "Enterprise", checks_other |-> FALSE,
              other_name |-> "Enterprise", t |-> "user_enterprise",
              left_key |-> "user_id", right_key |-> "enterprise_id"]

\* The steps a link request has taken when it inserts.
InsertSteps(op) ==
    IF LinkSignature(op).checks_other THEN <<"load_this", "load_other", "insert">>
    ELSE <<"load_this", "insert">>

\* First step of link_<other>(a, b): self._repository.get_by_id(a).
LinkLoadThis(op, a, b) ==
    /\ pending.pc = "idle"
    /\ LET sig  == LinkSignature(op)
           this == BaseRepository_get_by_id(rows[sig.k], a)
       IN  IF this = <<>>
           THEN /\ result' = NotFoundException(op, sig.k, a, b, <<"load_this">>,
                                               ResourceName(sig.k), a)
                /\ UNCHANGED pending
           ELSE /\ pending' = [pc |-> "loaded_this", op |-> op, id |-> a, other |-> b]
                /\ UNCHANGED result
    /\ UNCHANGED <<rows, assoc, now, created, assigned, sessions>>

\* Second step: self._session.get(Other, b), in the services that make it.
LinkLoadOther ==
    /\ pending.pc = "loaded_this"
    /\ LET sig   == LinkSignature(pending.op)
           other == Session_get(rows[sig.other_k], pending.other)
       IN  IF sig.checks_other /\ other = <<>>
           THEN /\ result' = NotFoundException(pending.op, sig.k, pending.id, pending.other,
                                               <<"load_this", "load_other">>,
                                               sig.other_name, pending.other)
                /\ pending' = Idle
           ELSE /\ pending' = [pending EXCEPT !.pc = "checked"]
                /\ UNCHANGED result
    /\ UNCHANGED <<rows, assoc, now, created, assigned, sessions>>

\* A link that loads both entities again before it inserts.
LinkInsert_revalidating ==
    /\ pending.pc = "checked"
    /\ LET sig == LinkSignature(pending.op)
           row == LinkRow(pending.id, pending.other, sig.left_key, sig.right_key)
       IN  IF \/ pending.id \notin ExistingIds(sig.k)
              \/ pending.other \notin ExistingIds(sig.other_k)
           THEN /\ result' = NotFoundException(pending.op, sig.k, pending.id, pending.other,
                                               InsertSteps(pending.op), sig.other_name,
                                               pending.other)
                /\ UNCHANGED assoc
           ELSE IF LinkRaises(sig.t, assoc[sig.t], row, rows)
           THEN /\ result' = IntegrityError(pending.op, sig.k, pending.id, pending.other,
                                            InsertSteps(pending.op))
                /\ UNCHANGED assoc
           ELSE /\ TotalLinks < MaxRaceLinks
                /\ assoc' = [assoc EXCEPT ![sig.t] =
                       ManyToManyRepository_link(@, pending.id, pending.other,
                                                 sig.left_key, sig.right_key)]
                /\ result' = Returned(pending.op, sig.k, pending.id, pending.other,
                                      InsertSteps(pending.op), 1, <<>>)
    /\ pending' = Idle
    /\ UNCHANGED <<rows, now, created, assigned, sessions>>

\* Last step: ManyToManyRepository.link, the INSERT and its commit.
LinkInsert ==
    /\ pending.pc = "checked"
    /\ LET sig == LinkSignature(pending.op)
           row == LinkRow(pending.id, pending.other, sig.left_key, sig.right_key)
       IN  IF LinkRaises(sig.t, assoc[sig.t], row, rows)
           THEN /\ result' = IntegrityError(pending.op, sig.k, pending.id, pending.other,
                                            InsertSteps(pending.op))
                /\ UNCHANGED assoc
           ELSE /\ TotalLinks < MaxRaceLinks
                /\ assoc' = [assoc EXCEPT ![sig.t] =
                       ManyToManyRepository_link(@, pending.id, pending.other,
                                                 sig.left_key, sig.right_key)]
                /\ result' = Returned(pending.op, sig.k, pending.id, pending.other,
                                      InsertSteps(pending.op), 1, <<>>)
    /\ pending' = Idle
    /\ UNCHANGED <<rows, now, created, assigned, sessions>>

\* One link request in flight, step by step, while physical deletes of rows
\* with the ids it names commit between its steps; creates come between two
\* link requests.
NextRace ==
    \/ \E k \in Kinds :
           /\ InScope(k) /\ pending.pc = "idle"
           /\ Create(k, SignedBody(k), MaxCrudRows) /\ UNCHANGED assigned
    \/ \E k \in Kinds, id \in Ids :
           /\ InScope(k) /\ pending.pc # "idle"
           /\ id \in ExistingIds(k) /\ id \in {pending.id, pending.other}
           /\ Delete(k, id)
    \/ \E op \in LinkOps : \E a, b \in Ids :
           TableInScope(LinkSignature(op).t) /\ LinkLoadThis(op, a, b)
    \/ LinkLoadOther
    \/ LinkInsert

SpecRace == Init /\ [][NextRace]_vars

\* C17: a physical delete can commit while a link request is between its
\* existence checks and its insert, and it leaves the request as it was: the
\* request holds no lock and is not invalidated; its next step is the INSERT,
\* made without loading either entity again, so it never ends in
\* NotFoundException and its outcome is the one the INSERT has on the
\* association table, whether or not the entities it checked still exist.
C17_InsertAfterStaleCheck ==
    [][/\ \A k \in Kinds, id \in Ids :
            ( /\ result'.op = "delete" /\ result'.kind = k /\ result'.id = id
              /\ Delete(k, id) ) => pending' = pending
       /\ (pending.pc = "checked" /\ pending'.pc = "idle") =>
            LET sig == LinkSignature(pending.op)
                row == LinkRow(pending.id, pending.other, sig.left_key, sig.right_key)
            IN  /\ result'.op = pending.op
                /\ result'.steps = InsertSteps(pending.op)
                /\ result'.outcome \in {"ok", "IntegrityError"}
                /\ result'.outcome = "IntegrityError" <=>
                       LinkRaises(sig.t, assoc[sig.t], row, rows)
                /\ result'.outcome = "ok" => row \in DOMAIN assoc'[sig.t]
      ]_vars

\* A link request has inserted its row although an entity its existence
\* check had found was physically deleted before the insert.
C17_InsertedForDeletedEntity ==
    /\ result.op \in LinkOps
    /\ result.outcome = "ok"
    /\ LET sig == LinkSignature(result.op)
       IN  /\ LinkRow(result.id, result.other, sig.left_key, sig.right_key)
                  \in DOMAIN assoc[sig.t]
           /\ \/ result.id \notin ExistingIds(sig.k)
              \/ sig.checks_other /\ result.other \notin ExistingIds(sig.other_k)

(***************************************************************************)
(* Soft delete of linked entities, checked under SpecSoft.                 *)
(***************************************************************************)
\* Relationship management with soft delete: create, logical_delete, link,
\* unlink, list.
NextSoft ==
    \/ \E k \in Kinds : InScope(k) /\ Create(k, SignedBody(k), MaxCrudRows) /\ UNCHANGED assigned
    \/ \E k \in Kinds, id \in Ids : InScope(k) /\ LogicalDelete(k, id)
    \/ Links

SpecSoft == Init /\ [][NextSoft]_vars

\* C18: logical_delete of an entity leaves every association table
\* unchanged: every row that references the entity is still there, and
\* get_links of every anchor, in either direction of every table, returns
\* what it returned before.
C18_SoftDeleteKeepsLinks ==
    [][\A k \in Kinds, id \in Ids :
        ( /\ result'.op = "logical_delete" /\ result'.kind = k /\ result'.id = id
          /\ LogicalDelete(k, id) ) =>
            /\ assoc' = assoc
            /\ \A t \in Tables : \A r \in DOMAIN assoc[t] :
                   (\E c \in TableColumns(t) : ForeignKeyKind(c) = k /\ r[c] = id) =>
                       r \in DOMAIN assoc'[t]
            /\ \A t \in Tables : \A c, d \in TableColumns(t) : \A a \in Ids :
                   c # d =>
                       ManyToManyRepository_get_links(assoc'[t], a, c, d)
                           = ManyToManyRepository_get_links(assoc[t], a, c, d)
      ]_vars

\* An entity has been soft-deleted while it is linked to an existing partner.
C18_SoftDeletedWhileLinked ==
    /\ result.op = "logical_delete"
    /\ result.outcome = "ok"
    /\ result.wrote = 1
    /\ rows[result.kind][result.id].status = FALSE
    /\ \E t \in LinkTables : \E r \in DOMAIN assoc[t] : \E c, d \in TableColumns(t) :
           /\ c # d
           /\ ForeignKeyKind(c) = result.kind
           /\ r[c] = result.id
           /\ r[d] \in ExistingIds(ForeignKeyKind(d))

C21_GetLinksExact ==
    [][/\ assoc' # assoc =>
            \A t \in Tables : assoc'[t] # assoc[t] =>
                \A c, d \in TableColumns(t) : \A a \in Ids :
                    c # d =>
                        LET links == ManyToManyRepository_get_links(assoc'[t], a, c, d)
                            hit   == {r \in DOMAIN assoc'[t] : r[c] = a}
                        IN  /\ SeqToSet(links) = {r[d] : r \in hit}
                            /\ Len(links) = Cardinality(hit)
                            /\ \A b \in Ids :
                                   b \in SeqToSet(links) <=>
                                       a \in SeqToSet(ManyToManyRepository_get_links(
                                                          assoc'[t], b, d, c))
       /\ result'.op \in {"list_ia_groups", "list_agents", "list_enterprises", "list_tools"} =>
            LET a == result'.id
                Lists(t, lk, rk) ==
                    /\ result'.outcome = "ok"
                    /\ a \notin ExistingIds(ForeignKeyKind(lk)) => result'.value = <<>>
                    /\ SeqToSet(result'.value) =
                           {r[rk] : r \in {q \in DOMAIN assoc[t] : q[lk] = a}}
                    /\ Len(result'.value) =
                           Cardinality({q \in DOMAIN assoc[t] : q[lk] = a})
                    /\ UNCHANGED <<rows, assoc>>
            IN  /\ (result'.op = "list_ia_groups" /\ EnterpriseService_list_ia_groups(a)) =>
                       Lists("enterprise_ia_group", "enterprise_id", "ia_group_id")
                /\ (result'.op = "list_agents" /\ IAGroupService_list_agents(a)) =>
                       Lists("ia_group_agent", "ia_group_id", "agent_id")
                /\ (result'.op = "list_enterprises" /\ UserService_list_enterprises(a)) =>
                       Lists("user_enterprise", "user_id", "enterprise_id")
                /\ (result'.op = "list_tools" /\ AgentService_list_tools(a)) =>
                       Lists("agent_tool", "agent_id", "tool_id")
      ]_vars

\* An entity of kind k with this id exists and is active.
Active(k, id) == id \in ExistingIds(k) /\ rows[k][id].status

\* C22: unlink_<other>(this_id, other_id) makes no existence check: it
\* returns without raising, and when this entity, the other entity or both
\* do not exist or are inactive it changes no entity store and no association
\* store.
C22_UnlinkOfAbsentChangesNothing ==
    [][\A a, b \in Ids :
        LET Quiet(k, other_k) ==
                /\ result'.outcome = "ok"
                /\ (~Active(k, a) \/ ~Active(other_k, b)) =>
                       rows' = rows /\ assoc' = assoc
            Called(op) == result'.op = op /\ result'.id = a /\ result'.other = b
        IN  /\ (Called("unlink_ia_group") /\ EnterpriseService_unlink_ia_group(a, b)) =>
                   Quiet("Enterprise", "IAGroup")
            /\ (Called("unlink_agent") /\ IAGroupService_unlink_agent(a, b)) =>
                   Quiet("IAGroup", "Agent")
            /\ (Called("unlink_enterprise") /\ UserService_unlink_enterprise(a, b)) =>
                   Quiet("User", "Enterprise")
      ]_vars

\* C22, amended: unlink_<other>(this_id, other_id) makes no existence check:
\* whether this entity and the other entity exist, are inactive or are
\* absent, it returns without raising, leaves every entity store and every
\* other association table as they were, and leaves its own table without
\* the row of the pair and otherwise as it was; so it changes no store when
\* the pair is not linked.
C22_UnlinkWithoutExistenceCheck ==
    [][\A a, b \in Ids :
        LET Quiet(t, lk, rk) ==
                LET row == LinkRow(a, b, lk, rk)
                IN  /\ result'.outcome = "ok"
                    /\ rows' = rows
                    /\ \A u \in Tables \ {t} : assoc'[u] = assoc[u]
                    /\ DOMAIN assoc'[t] = DOMAIN assoc[t] \ {row}
                    /\ \A r \in DOMAIN assoc'[t] : assoc'[t][r] = assoc[t][r]
                    /\ row \notin DOMAIN assoc[t] => assoc' = assoc
            Called(op) == result'.op = op /\ result'.id = a /\ result'.other = b
        IN  /\ (Called("unlink_ia_group") /\ EnterpriseService_unlink_ia_group(a, b)) =>
                   Quiet("enterprise_ia_group", "enterprise_id", "ia_group_id")
            /\ (Called("unlink_agent") /\ IAGroupService_unlink_agent(a, b)) =>
                   Quiet("ia_group_agent", "ia_group_id", "agent_id")
            /\ (Called("unlink_enterprise") /\ UserService_unlink_enterprise(a, b)) =>
                   Quiet("user_enterprise", "user_id", "enterprise_id")
      ]_vars

\* An unlink has removed the row of a pair whose this entity exists and is
\* inactive, and the row it removed was the only one of its table.
C22_UnlinkedInactiveEntity ==
    /\ result.op \in {"unlink_ia_group", "unlink_agent", "unlink_enterprise"}
    /\ result.outcome = "ok"
    /\ result.wrote = 1
    /\ result.id \in ExistingIds(result.kind)
    /\ ~rows[result.kind][result.id].status
    /\ TotalLinks = 0

(***************************************************************************)
(* Requests served at the same time, each in the Session of its worker.    *)
(***************************************************************************)
\* session.query(Model).filter(Model.id == id).first(): the SELECT runs on
\* the store; a row whose identity the Session holds already comes back as
\* the object the Session holds.
Session_query_first(identity, store, k, id) ==
    IF id \notin DOMAIN store THEN <<>>
    ELSE IF id \in DOMAIN identity[k] THEN <<identity[k][id]>>
    ELSE <<store[id]>>

\* session.query(Model).all(), in primary-key order, under the same rule.
Session_query_all(identity, store, k) ==
    LET ids == SortedSeq(DOMAIN store)
    IN  [i \in DOMAIN ids |->
            IF ids[i] \in DOMAIN identity[k] THEN identity[k][ids[i]] ELSE store[ids[i]]]

\* session.get(Model, id): the object the Session holds, without a SELECT;
\* otherwise the row of the store, or None.
Session_get_identity(identity, store, k, id) ==
    IF id \in DOMAIN identity[k] THEN <<identity[k][id]>>
    ELSE IF id \in DOMAIN store THEN <<store[id]>>
    ELSE <<>>

\* The identity map once the Session has loaded obj as row id of kind k.
Holding(identity, k, id, obj) ==
    [identity EXCEPT ![k] = [i \in DOMAIN @ \cup {id} |->
                                IF i \in DOMAIN @ THEN @[i] ELSE obj]]

\* A flush that writes every column of the object, changed or not.
FlushOnto_whole(stored, loaded, obj, t) == Flush(loaded, obj, t)

\* The UPDATE a flush emits for obj, applied to the row as stored: SET names
\* the columns whose value differs from the loaded one, and updated_at
\* (onupdate) when the object does not set it.
FlushOnto(stored, loaded, obj, t) ==
    [c \in DOMAIN stored |->
        IF obj[c] # loaded[c] THEN obj[c]
        ELSE IF c = "updated_at" THEN Some(t)
        ELSE stored[c]]

\* The operations that load an entity with get_by_id(id) first.
EntityOps == {"list_by_id", "update", "logical_delete"}

\* First statement of list_by_id, update and logical_delete in the Session
\* of worker s: self._repository.get_by_id(id).  list_by_id returns at once.
SessionGetById(s, op, k, id, body) ==
    /\ sessions[s].pc = "closed"
    /\ LET identity == sessions[s].identity
           found    == Session_query_first(identity, rows[k], k, id)
       IN  IF op = "update" /\ ~SchemaAccepts(UpdateSchemaFields(k), UpdateSchemaDefaults(k), body)
           THEN /\ result' = ValidationError(op, k, id)
                /\ sessions' = [sessions EXCEPT ![s] = Closed(identity)]
           ELSE IF found = <<>>
           THEN /\ result' = NotFoundException(op, k, id, 0, <<>>, ResourceName(k), id)
                /\ sessions' = [sessions EXCEPT ![s] = Closed(identity)]
           ELSE IF op = "list_by_id"
           THEN /\ result' = Returned(op, k, id, 0, <<>>, 0, <<model_validate(k, found[1])>>)
                /\ sessions' = [sessions EXCEPT ![s] =
                       Closed(Holding(identity, k, id, found[1]))]
           ELSE /\ sessions' = [sessions EXCEPT ![s] =
                       [pc |-> "loaded", op |-> op, kind |-> k, id |-> id, other |-> 0,
                        body |-> body, identity |-> Holding(identity, k, id, found[1])]]
                /\ UNCHANGED result
    /\ UNCHANGED <<rows, assoc, now, created, assigned, pending>>

\* list_all in the Session of worker s: self._repository.get_all().
SessionGetAll(s, k) ==
    /\ sessions[s].pc = "closed"
    /\ LET identity == sessions[s].identity
           all      == Session_query_all(identity, rows[k], k)
       IN  /\ result' = Returned("list_all", k, 0, 0, <<>>, 0,
                                 [i \in DOMAIN all |-> model_validate(k, all[i])])
           /\ sessions' = [sessions EXCEPT ![s] =
                  Closed([identity EXCEPT ![k] =
                      [i \in DOMAIN rows[k] |->
                          IF i \in DOMAIN @ THEN @[i] ELSE rows[k][i]]])]
    /\ UNCHANGED <<rows, assoc, now, created, assigned, pending>>

\* Second statement of update and logical_delete: the attributes are set on
\* the loaded object and session.commit() flushes it; update then refreshes
\* the object and returns it.  The commit expires what the Session holds.
SessionCommit(s) ==
    /\ sessions[s].pc = "loaded"
    /\ sessions[s].op \in {"update", "logical_delete"}
    /\ LET q      == sessions[s]
           k      == q.kind
           id     == q.id
           loaded == q.identity[k][id]
           schema == UpdateKwargs(k, q.body)
           kwargs == IF k = "User" THEN HashedPassword(schema) ELSE schema
           obj    == IF q.op = "update" THEN SetAttrs(loaded, kwargs)
                     ELSE [loaded EXCEPT !.status = FALSE]
       IN  IF id \notin ExistingIds(k)
           THEN /\ result' =
                       IF EmitsUpdate(loaded, obj)
                       THEN Raised(q.op, k, id, 0, <<>>, "StaleDataError", "", 0)
                       ELSE IF q.op = "update"
                       THEN Raised(q.op, k, id, 0, <<>>, "InvalidRequestError", "", 0)
                       ELSE Returned(q.op, k, id, 0, <<>>, 0, <<>>)
                /\ sessions' = [sessions EXCEPT ![s] = Closed(EmptyIdentity)]
                /\ UNCHANGED <<rows, created>>
           ELSE LET stored == IF EmitsUpdate(loaded, obj)
                              THEN FlushOnto(rows[k][id], loaded, obj, now)
                              ELSE rows[k][id]
                IN  /\ rows' = [rows EXCEPT ![k][id] = stored]
                    /\ result' = Returned(q.op, k, id, 0, <<>>,
                                          IF stored = rows[k][id] THEN 0 ELSE 1,
                                          IF q.op = "update"
                                          THEN <<model_validate(k, stored)>> ELSE <<>>)
                    /\ created' = [created EXCEPT ![k] = Without(@, id)]
                    /\ sessions' = [sessions EXCEPT ![s] =
                           Closed(IF q.op = "update"
                                  THEN Holding(EmptyIdentity, k, id, stored)
                                  ELSE EmptyIdentity)]
    /\ UNCHANGED <<assoc, now, assigned, pending>>

\* First statement of link_<other>(a, b) in the Session of worker s.
SessionLinkLoadThis(s, op, a, b) ==
    /\ sessions[s].pc = "closed"
    /\ LET sig      == LinkSignature(op)
           identity == sessions[s].identity
           this     == Session_query_first(identity, rows[sig.k], sig.k, a)
       IN  IF this = <<>>
           THEN /\ result' = NotFoundException(op, sig.k, a, b, <<"load_this">>,
                                               ResourceName(sig.k), a)
                /\ sessions' = [sessions EXCEPT ![s] = Closed(identity)]
           ELSE /\ sessions' = [sessions EXCEPT ![s] =
                       [pc |-> "loaded", op |-> op, kind |-> sig.k, id |-> a, other |-> b,
                        body |-> NoKwargs, identity |-> Holding(identity, sig.k, a, this[1])]]
                /\ UNCHANGED result
    /\ UNCHANGED <<rows, assoc, now, created, assigned, pending>>

\* Second statement: self._session.get(Other, b), in the services that make it.
SessionLinkLoadOther(s) ==
    /\ sessions[s].pc = "loaded"
    /\ sessions[s].op \in LinkOps
    /\ LET q     == sessions[s]
           sig   == LinkSignature(q.op)
           other == Session_get_identity(q.identity, rows[sig.other_k], sig.other_k, q.other)
       IN  IF sig.checks_other /\ other = <<>>
           THEN /\ result' = NotFoundException(q.op, sig.k, q.id, q.other,
                                               <<"load_this", "load_other">>,
                                               sig.other_name, q.other)
                /\ sessions' = [sessions EXCEPT ![s] = Closed(q.identity)]
           ELSE /\ sessions' = [sessions EXCEPT ![s] =
                       [q EXCEPT !.pc = "checked",
                                 !.identity = IF sig.checks_other
                                              THEN Holding(@, sig.other_k, q.other, other[1])
                                              ELSE @]]
                /\ UNCHANGED result
    /\ UNCHANGED <<rows, assoc, now, created, assigned, pending>>

\* Last statement: ManyToManyRepository.link, the INSERT and its commit.
SessionLinkInsert(s) ==
    /\ sessions[s].pc = "checked"
    /\ LET q   == sessions[s]
           sig == LinkSignature(q.op)
           row == LinkRow(q.id, q.other, sig.left_key, sig.right_key)
       IN  IF LinkRaises(sig.t, assoc[sig.t], row, rows)
           THEN /\ result' = IntegrityError(q.op, sig.k, q.id, q.other, InsertSteps(q.op))
                /\ UNCHANGED assoc
           ELSE /\ TotalLinks < MaxRaceLinks \/ row \in DOMAIN assoc[sig.t]
                /\ assoc' = [assoc EXCEPT ![sig.t] =
                       ManyToManyRepository_link(@, q.id, q.other,
                                                 sig.left_key, sig.right_key)]
                /\ result' = Returned(q.op, sig.k, q.id, q.other, InsertSteps(q.op), 1, <<>>)
    /\ sessions' = [sessions EXCEPT ![s] = Closed(EmptyIdentity)]
    /\ UNCHANGED <<rows, now, created, assigned, pending>>

\* The requests of one worker, statement by statement in its Session: reads
\* and links, on stores of one row per kind; the requests of the other
\* workers commit in between: creates, updates, physical deletes, unlinks.
NextSessions ==
    \/ \E k \in Kinds :
           /\ InScope(k) /\ ExistingIds(k) = {}
           /\ Create(k, SignedBody(k), MaxCrudRows) /\ UNCHANGED assigned
    \/ \E k \in Kinds, id \in Ids :
           InScope(k) /\ SessionGetById(1, "list_by_id", k, id, NoKwargs)
    \/ \E k \in Kinds : InScope(k) /\ SessionGetAll(1, k)
    \/ \E op \in LinkOps : \E a, b \in Ids :
           TableInScope(LinkSignature(op).t) /\ SessionLinkLoadThis(1, op, a, b)
    \/ SessionLinkLoadOther(1)
    \/ SessionLinkInsert(1)
    \/ \E a \in Ids :
           /\ sessions[1].pc = "closed"
           /\ \/ TableInScope("enterprise_ia_group") /\ EnterpriseService_list_ia_groups(a)
              \/ TableInScope("ia_group_agent") /\ IAGroupService_list_agents(a)
              \/ TableInScope("user_enterprise") /\ UserService_list_enterprises(a)
    \/ \E k \in Kinds, id \in Ids : InScope(k) /\ Update(k, id, RenameBody(k))
    \/ \E k \in Kinds, id \in Ids : InScope(k) /\ Delete(k, id)
    \/ \E a, b \in Ids :
           \/ TableInScope("enterprise_ia_group") /\ EnterpriseService_unlink_ia_group(a, b)
           \/ TableInScope("ia_group_agent") /\ IAGroupService_unlink_agent(a, b)
           \/ TableInScope("user_enterprise") /\ UserService_unlink_enterprise(a, b)

SpecSessions == Init /\ [][NextSessions]_vars

\* C23: every read returns what the store holds when it is made, whatever
\* the Session read before and whatever other sessions have committed since:
\* get_by_id loads the row as stored and finds no row exactly when the store
\* has none; so does the existence check of link_<other> for the other
\* entity; list_by_id, list_all and list_<other> return the rows and the
\* links as stored; and update returns the row as stored by its commit.
C23_NoStaleReads ==
    [][/\ \A s \in Sessions :
            LET q == sessions[s]
                n == sessions'[s]
            IN  /\ (q.pc = "closed" /\ n.pc = "loaded") =>
                       /\ n.id \in ExistingIds(n.kind)
                       /\ n.identity[n.kind][n.id] = rows[n.kind][n.id]
                /\ (q.pc = "loaded" /\ n.pc = "checked"
                        /\ LinkSignature(q.op).checks_other) =>
                       LET ok == LinkSignature(q.op).other_k
                       IN  /\ q.other \in ExistingIds(ok)
                           /\ n.identity[ok][q.other] = rows[ok][q.other]
                /\ (q.pc = "loaded" /\ n.pc = "closed" /\ q.op \in LinkOps) =>
                       /\ result'.outcome = "NotFoundException"
                       /\ q.other \notin ExistingIds(LinkSignature(q.op).other_k)
       /\ (result'.outcome = "NotFoundException" /\ result' # result
              /\ result'.steps \in {<<>>, <<"load_this">>}) =>
              result'.id \notin ExistingIds(result'.kind)
       /\ (result'.op = "list_by_id" /\ result'.outcome = "ok" /\ result' # result) =>
              result'.value = <<model_validate(result'.kind, rows[result'.kind][result'.id])>>
       /\ (result'.op = "list_all" /\ result' # result) =>
              result'.value =
                  LET all == BaseRepository_get_all(rows[result'.kind])
                  IN  [i \in DOMAIN all |-> model_validate(result'.kind, all[i])]
       /\ (result'.op = "update" /\ result'.outcome = "ok" /\ result' # result) =>
              result'.value = <<model_validate(result'.kind, rows'[result'.kind][result'.id])>>
       /\ \A op \in LinkOps :
              LET sig == LinkSignature(op)
                  hit == {r \in DOMAIN assoc[sig.t] : r[sig.left_key] = result'.id}
              IN  (result'.kind = sig.k /\ result' # result
                      /\ result'.op \in {"list_ia_groups", "list_agents", "list_enterprises"}) =>
                      /\ SeqToSet(result'.value) = {r[sig.right_key] : r \in hit}
                      /\ Len(result'.value) = Cardinality(hit)
      ]_vars

\* A read by id has returned an entity under the name that the update of
\* another request committed.
C23_ReadAfterForeignCommit ==
    /\ result.op = "list_by_id"
    /\ result.outcome = "ok"
    /\ result.value[1].name = "v1"
    /\ rows[result.kind][result.id].name = "v1"
(***************************************************************************)
(* Properties of the service without physical delete, checked under        *)
(* SpecSoft.                                                               *)
(***************************************************************************)
\* C24: in every state reached by service calls made one after the other,
\* none of them a physical delete, every row of every association table
\* names, in both of its columns, the id of a row of the entity store the
\* column refers to.
C24_ReferentialIntegrity ==
    \A t \in Tables : \A r \in DOMAIN assoc[t] : \A c \in TableColumns(t) :
        r[c] \in ExistingIds(ForeignKeyKind(c))

\* C25: the existence checks of link_<other> look for a row, not for an
\* active one: a link_ia_group or link_agent of a pair of stored entities
\* that is not yet linked succeeds and adds the association row, whether
\* the two entities are active or soft-deleted.
C25_LinkIgnoresStatus ==
    [][\A a, b \in Ids :
           /\ (/\ result'.op = "link_ia_group"
               /\ result'.id = a /\ result'.other = b
               /\ a \in ExistingIds("Enterprise") /\ b \in ExistingIds("IAGroup")
               /\ ~BagIn(LinkRow(a, b, "enterprise_id", "ia_group_id"),
                         assoc["enterprise_ia_group"])
               /\ result' # result) =>
                  /\ result'.outcome = "ok"
                  /\ assoc'["enterprise_ia_group"] =
                         assoc["enterprise_ia_group"]
                             @@ (LinkRow(a, b, "enterprise_id", "ia_group_id") :> 1)
           /\ (/\ result'.op = "link_agent"
               /\ result'.id = a /\ result'.other = b
               /\ a \in ExistingIds("IAGroup") /\ b \in ExistingIds("Agent")
               /\ ~BagIn(LinkRow(a, b, "ia_group_id", "agent_id"),
                         assoc["ia_group_agent"])
               /\ result' # result) =>
                  /\ result'.outcome = "ok"
                  /\ assoc'["ia_group_agent"] =
                         assoc["ia_group_agent"]
                             @@ (LinkRow(a, b, "ia_group_id", "agent_id") :> 1)
      ]_vars

\* A link has been made between two entities that are both soft-deleted.
C25_LinkedInactivePair ==
    /\ result.op \in {"link_ia_group", "link_agent"}
    /\ result.outcome = "ok"
    /\ result.wrote = 1
    /\ ~rows[result.kind][result.id].status
    /\ ~rows[LinkSignature(result.op).other_k][result.other].status
    /\ BagIn(LinkRow(result.id, result.other, LinkSignature(result.op).left_key,
                     LinkSignature(result.op).right_key),
             assoc[LinkSignature(result.op).t])

(***************************************************************************)
(* The requests the HTTP layer serves.                                     *)
(***************************************************************************)
\* The service call a route makes: method op of the service of kind k with
\* the path parameters id and other and the request body.
Serve(k, op, id, other) ==
    CASE op = "create"            -> Create(k, SignedBody(k), MaxCrudRows) /\ UNCHANGED assigned
      [] op = "list_all"          -> ListAll(k)
      [] op = "list_by_id"        -> ListById(k, id)
      [] op = "update"            -> Update(k, id, RenameBody(k))
      [] op = "logical_delete"    -> LogicalDelete(k, id)
      [] op = "delete"            -> Delete(k, id)
      [] op = "link_ia_group"     -> EnterpriseService_link_ia_group(id, other)
      [] op = "unlink_ia_group"   -> EnterpriseService_unlink_ia_group(id, other)
      [] op = "list_ia_groups"    -> EnterpriseService_list_ia_groups(id)
      [] op = "link_agent"        -> IAGroupService_link_agent(id, other)
      [] op = "unlink_agent"      -> IAGroupService_unlink_agent(id, other)
      [] op = "list_agents"       -> IAGroupService_list_agents(id)
      [] op = "link_enterprise"   -> UserService_link_enterprise(id, other)
      [] op = "unlink_enterprise" -> UserService_unlink_enterprise(id, other)
      [] op = "list_enterprises"  -> UserService_list_enterprises(id)
      [] op = "link_tool"         -> AgentService_link_tool(id, other)
      [] op = "unlink_tool"       -> AgentService_unlink_tool(id, other)
      [] op = "list_tools"        -> AgentService_list_tools(id)

\* The association table the routes of the controller of kind k manage.
RouteTable(k) ==
    CASE k = "Enterprise" -> "enterprise_ia_group"
      [] k = "IAGroup"    -> "ia_group_agent"
      [] k = "User"       -> "user_enterprise"
      [] k = "Agent"      -> "agent_tool"
      [] OTHER            -> ""

\* A request on a route of the controller of kind k, on stores of one row
\* per kind and one relationship at a time.
Exposed(k, op, id, other) ==
    /\ op \in RouteCalls(k)
    /\ IF TakesOther(op) \/ op \in {"list_ia_groups", "list_agents", "list_enterprises", "list_tools"}
       THEN TableInScope(RouteTable(k))
       ELSE InScope(k)
    /\ TakesId(op) \/ id = 1
    /\ TakesOther(op) \/ other = 1
    /\ op = "create" => ExistingIds(k) = {}
    /\ op \in {"link_ia_group", "link_agent", "link_enterprise", "link_tool"} =>
           TotalLinks < MaxRaceLinks
    /\ Serve(k, op, id, other)

NextExposed ==
    \E k \in Kinds, id, other \in Ids : \E op \in Operations(k) :
        Exposed(k, op, id, other)

SpecExposed == Init /\ [][NextExposed]_vars

\* C26: no request the HTTP layer serves removes an entity row: the ids of
\* each entity store after a request include the ids before it.
C26_ExposedRequestsKeepRows ==
    [][\A k \in Kinds : ExistingIds(k) \subseteq DOMAIN rows'[k]]_vars

\* A DELETE route has been served for a stored entity, and the entity is
\* still stored, inactive.
C26_DeleteRouteServed ==
    /\ result.op = "logical_delete"
    /\ result.outcome = "ok"
    /\ result.id \in ExistingIds(result.kind)
    /\ ~rows[result.kind][result.id].status

(***************************************************************************)
(* An update and a logical_delete of one entity served at the same time.   *)
(***************************************************************************)
\* Worker 1 serves update requests and worker 2 logical_delete requests on
\* the one stored entity, each in two statements: the load, then the commit.
NextOverlap ==
    \/ \E k \in Kinds :
           TotalRows = 0 /\ Create(k, SignedBody(k), MaxCrudRows) /\ UNCHANGED assigned
    \/ \E k \in Kinds, id \in Ids : \E body \in UpdateBodies(k) :
           OnlyKind(k) /\ SessionGetById(1, "update", k, id, body)
    \/ \E k \in Kinds, id \in Ids :
           OnlyKind(k) /\ SessionGetById(2, "logical_delete", k, id, NoKwargs)
    \/ \E s \in Sessions : SessionCommit(s)
    \/ Tick

SpecOverlap == Init /\ [][NextOverlap]_vars

\* C27: whichever of an update and a logical_delete that both loaded the
\* same active entity commits first, the entity ends inactive with the
\* values of the update: the commit of the logical_delete stores
\* status = False and leaves every other attribute but updated_at as stored,
\* the values of an update committed since its load included; the commit of
\* the update stores the values of its payload and leaves an entity that has
\* been soft-deleted since its load inactive.
C27_SoftDeleteSurvivesUpdate ==
    [][\A s \in Sessions :
           LET q      == sessions[s]
               k      == q.kind
               id     == q.id
               loaded == q.identity[k][id]
               schema == UpdateKwargs(k, q.body)
               kwargs == IF k = "User" THEN HashedPassword(schema) ELSE schema
           IN  (q.pc = "loaded" /\ sessions'[s].pc = "closed"
                   /\ q.op \in {"update", "logical_delete"}) =>
                   /\ id \in DOMAIN rows'[k]
                   /\ result'.outcome = "ok"
                   /\ q.op = "logical_delete" =>
                          /\ loaded.status => ~rows'[k][id].status
                          /\ \A c \in DOMAIN rows[k][id] \ {"status", "updated_at"} :
                                 rows'[k][id][c] = rows[k][id][c]
                   /\ q.op = "update" =>
                          /\ \A c \in DOMAIN kwargs \ {"status"} :
                                 rows'[k][id][c] = SetAttrs(loaded, kwargs)[c]
                          /\ (loaded.status /\ ~rows[k][id].status) =>
                                 ~rows'[k][id].status
      ]_vars

\* A logical_delete has been committed while an update of the same entity,
\* which loaded it as active and renames it, is about to commit.
C27_SoftDeletedWhileUpdating ==
    /\ result.op = "logical_delete"
    /\ result.outcome = "ok"
    /\ sessions[1].pc = "loaded"
    /\ sessions[1].op = "update"
    /\ sessions[1].kind = result.kind
    /\ sessions[1].id = result.id
    /\ "name" \in DOMAIN sessions[1].body
    /\ sessions[1].identity[result.kind][result.id].status
    /\ ~rows[result.kind][result.id].status

(***************************************************************************)
(* Two link requests served at the same time.                              *)
(***************************************************************************)
\* Each of the two workers serves link_<other> requests statement by
\* statement in its Session, on stores of one row per kind.
NextDuplicate ==
    \/ \E k \in Kinds :
           /\ InScope(k) /\ ExistingIds(k) = {}
           /\ Create(k, SignedBody(k), MaxCrudRows) /\ UNCHANGED assigned
    \/ \E s \in Sessions, op \in LinkOps : \E a, b \in Ids :
           TableInScope(LinkSignature(op).t) /\ SessionLinkLoadThis(s, op, a, b)
    \/ \E s \in Sessions : SessionLinkLoadOther(s)
    \/ \E s \in Sessions : SessionLinkInsert(s)

SpecDuplicate == Init /\ [][NextDuplicate]_vars

\* C28: of two link_<other>(a, b) requests in flight for the same pair, the
\* one that inserts first succeeds and adds the row (a, b) once; the other,
\* which found the pair unlinked when it made its checks, ends with
\* IntegrityError at its INSERT and adds nothing; no association table ever
\* holds a row twice.
C28_OneOfTwoLinksInserts ==
    [][/\ \A s \in Sessions :
              LET q   == sessions[s]
                  sig == LinkSignature(q.op)
                  row == LinkRow(q.id, q.other, sig.left_key, sig.right_key)
              IN  (q.pc = "checked" /\ sessions'[s].pc = "closed") =>
                      IF row \in DOMAIN assoc[sig.t]
                      THEN /\ result'.outcome = "IntegrityError"
                           /\ assoc' = assoc
                      ELSE /\ result'.outcome = "ok"
                           /\ DOMAIN assoc'[sig.t] = DOMAIN assoc[sig.t] \cup {row}
       /\ \A t \in Tables : \A r \in DOMAIN assoc'[t] : assoc'[t][r] = 1
      ]_vars

\* One request has inserted the row of a pair while the other worker's
\* request for the same pair, its checks made, is about to insert.
C28_InsertedWhileOtherChecked ==
    \E s \in Sessions :
        /\ sessions[s].pc = "checked"
        /\ sessions[s].op = result.op
        /\ sessions[s].id = result.id
        /\ sessions[s].other = result.other
        /\ result.outcome = "ok"
        /\ result.wrote = 1
        /\ result.id \in ExistingIds(result.kind)
        /\ result.other \in ExistingIds(LinkSignature(result.op).other_k)
        /\ LinkRow(result.id, result.other, LinkSignature(result.op).left_key,
                   LinkSignature(result.op).right_key)
               \in DOMAIN assoc[LinkSignature(result.op).t]

(***************************************************************************)
(* Properties of the NotFound error, checked under SpecLife.               *)
(***************************************************************************)
\* C29: a NotFoundException names the kind of the entity that is absent and
\* nothing else: whichever service raises it, the name for an absent IAGroup
\* is "IAGroup", and the name for an absent entity of any other kind is the
\* name of that kind.
C29_NotFoundNamesKind ==
    result.outcome = "NotFoundException" =>
        LET absent == IF "load_other" \in SeqToSet(result.steps)
                      THEN IF result.op = "link_tool" THEN "Tool"
                           ELSE LinkSignature(result.op).other_k
                      ELSE result.kind
        IN  result.resource = absent

(***************************************************************************)
(* The frame of link and unlink, checked under SpecSoft.                   *)
(***************************************************************************)
\* The association table and the two columns that the link_<other> and
\* unlink_<other> methods pass to the ManyToManyRepository.
Relation(op) ==
    CASE op \in {"link_ia_group", "unlink_ia_group"} ->
             [t |-> "enterprise_ia_group", left_key |-> "enterprise_id",
              right_key |-> "ia_group_id"]
      [] op \in {"link_agent", "unlink_agent"} ->
             [t |-> "ia_group_agent", left_key |-> "ia_group_id", right_key |-> "agent_id"]
      [] op \in {"link_enterprise", "unlink_enterprise"} ->
             [t |-> "user_enterprise", left_key |-> "user_id", right_key |-> "enterprise_id"]
      [] op \in {"link_tool", "unlink_tool"} ->
             [t |-> "agent_tool", left_key |-> "agent_id", right_key |-> "tool_id"]

\* C30: a link_<other>(a, b) that succeeds adds the row (a, b) to its
\* association table and one that fails adds nothing; unlink_<other>(a, b)
\* leaves its table without the row (a, b); every other row of that table,
\* every other association table and every entity row are after the call as
\* they were before it.
C30_LinkTouchesOwnPair ==
    [][result'.op \in {"link_ia_group", "link_agent", "link_enterprise", "link_tool",
                       "unlink_ia_group", "unlink_agent", "unlink_enterprise",
                       "unlink_tool"} =>
           LET rel    == Relation(result'.op)
               row    == LinkRow(result'.id, result'.other, rel.left_key, rel.right_key)
               before == assoc[rel.t]
               after  == assoc'[rel.t]
           IN  /\ rows' = rows
               /\ \A u \in Tables \ {rel.t} : assoc'[u] = assoc[u]
               /\ DOMAIN after \ {row} = DOMAIN before \ {row}
               /\ \A r \in DOMAIN before \ {row} : after[r] = before[r]
               /\ IF result'.op \in
                         {"link_ia_group", "link_agent", "link_enterprise", "link_tool"}
                  THEN IF result'.outcome = "ok"
                       THEN /\ row \notin DOMAIN before
                            /\ row \in DOMAIN after /\ after[row] = 1
                       ELSE after = before
                  ELSE /\ result'.outcome = "ok"
                       /\ row \notin DOMAIN after
      ]_vars

\* A link has been added for an anchor that has another partner, and both
\* rows are in the table.
C30_LinkedSecondPartner ==
    /\ result.op \in {"link_ia_group", "link_agent", "link_enterprise", "link_tool"}
    /\ result.outcome = "ok"
    /\ LET rel == Relation(result.op)
       IN  \E r1, r2 \in DOMAIN assoc[rel.t] :
               /\ r1[rel.left_key] = result.id /\ r1[rel.right_key] = result.other
               /\ r2[rel.left_key] = result.id /\ r2[rel.right_key] # result.other

====
